---- MODULE Spec2Model ----
(***************************************************************************)
(* Credential pool (ApiKeyManager) and failover request executor           *)
(* (makeExaRequest) of exa-mcp-server.                                     *)
(*                                                                         *)
(* The pool is a process-wide singleton.  Request handlers run under       *)
(* single-threaded cooperative scheduling: every action below is one       *)
(* synchronous stretch of code between two awaits.                         *)
(*                                                                         *)
(* Credentials are identified by their position: the i-th configured       *)
(* secret (index i-1 of the keys array) is the key i; NoKey stands for the *)
(* null / empty-string result.  Time is counted in abstract clock units.   *)
(***************************************************************************)
EXTENDS Integers, Sequences, FiniteSets, TLC

\* ---- bounds of the model ------------------------------------------------
MaxKeys == 2
MaxProcs == 2
MaxTime == 2
MaxRetriesCfg == 2
MaxEntries == 2
MaxUsage == 2
\* cooldownMs ranges up to the clock's horizon; retryCount is followed one
\* step past the largest maxRetries.
MaxCooldown == MaxTime
MaxRetryCount == MaxRetriesCfg + 1

\* ---- values --------------------------------------------------------------
Null == <<>>
Some(t) == <<t>>
NoKey == 0
OverrideKey == MaxKeys + 2
NaN == 0 - 1
Procs == 1 .. MaxProcs

VARIABLES
  keys,          \* ApiKeyManager.keys: index -> KeyState
  currentIndex,  \* ApiKeyManager.currentIndex
  cooldownMs,    \* ApiKeyManager.config.cooldownMs
  maxRetries,    \* ApiKeyManager.config.maxRetries
  isDeno,        \* runtime: Deno (fetch path) or Node.js (axios path)
  kv,            \* ApiKeyManager.kv: "null", or a store handle whose writes
                 \* succeed ("up") or reject ("down")
  kvStore,       \* contents of the durable store, by key index
  now,           \* Date.now()
  pc,            \* per caller: where its pending operation is suspended
  req,           \* per caller: the locals of its pending operation
  env,           \* the environment: MCP_AUTH_TOKEN and the entries of USER_TOKENS
  tokens,        \* TokenManager.tokens: token string -> TokenInfo
  tokenStore,    \* the token states in the durable store, by hashToken
  sessions,      \* main_deno: the ids of the sessions map
  issued,        \* the session ids crypto.randomUUID() has produced so far
  initialized    \* ApiKeyManager.initialized

vars == <<keys, currentIndex, cooldownMs, maxRetries, isDeno, kv, kvStore, now, pc, req,
          env, tokens, tokenStore, sessions, issued, initialized>>

config == <<cooldownMs, maxRetries, isDeno, kv>>

tokenManager == <<env, tokens, tokenStore>>

runtime == <<sessions, issued, initialized>>

KeysLength == Cardinality(DOMAIN keys)

KeyState(k) == [key |-> k, failedAt |-> Null, retryCount |-> 0, isDead |-> FALSE]

\* ---- ApiKeyManager: pure parts -------------------------------------------

isKeyAvailableNoDeadCheck(keyState, t) ==
  IF keyState.failedAt = Null THEN TRUE
  ELSE t - keyState.failedAt[1] >= cooldownMs

isKeyAvailable(keyState, t) ==
  IF keyState.isDead THEN FALSE
  ELSE IF keyState.failedAt = Null THEN TRUE
  ELSE t - keyState.failedAt[1] >= cooldownMs

\* The scan of getActiveKey: [keys, currentIndex, ret] after the loop.
RECURSIVE getActiveKeyLoop(_, _, _, _)
getActiveKeyLoop(ks, idx, attempts, t) ==
  IF attempts >= Cardinality(DOMAIN ks)
  THEN [keys |-> ks, currentIndex |-> idx, ret |-> NoKey]
  ELSE IF isKeyAvailable(ks[idx], t)
       THEN [keys |-> IF ks[idx].failedAt # Null /\ t - ks[idx].failedAt[1] >= cooldownMs
                      THEN [ks EXCEPT ![idx].failedAt = Null]
                      ELSE ks,
             currentIndex |-> idx,
             ret |-> ks[idx].key]
       ELSE getActiveKeyLoop(ks, (idx + 1) % Cardinality(DOMAIN ks), attempts + 1, t)

getActiveKeyNoAdvance(ks, idx, t) ==
  [getActiveKeyLoop(ks, idx, 0, t) EXCEPT !.currentIndex = idx]

getActiveKeyResetRetry(ks, idx, t) ==
  LET r == getActiveKeyLoop(ks, idx, 0, t)
  IN  IF r.ret = NoKey THEN r
      ELSE [r EXCEPT !.keys[r.currentIndex].retryCount = 0]

getActiveKey(ks, idx, t) ==
  IF Cardinality(DOMAIN ks) = 0
  THEN [keys |-> ks, currentIndex |-> idx, ret |-> NoKey]
  ELSE getActiveKeyLoop(ks, idx, 0, t)

markFailedLate(keyState, t) ==
  [keyState EXCEPT !.failedAt = Some(t),
                   !.retryCount = @ + 1,
                   !.isDead = IF keyState.retryCount + 1 > maxRetries THEN TRUE ELSE @]

\* The synchronous head of markCurrentKeyFailed: the KeyState at the cursor.
markFailed(keyState, t) ==
  [keyState EXCEPT !.failedAt = Some(t),
                   !.retryCount = @ + 1,
                   !.isDead = IF keyState.retryCount + 1 >= maxRetries THEN TRUE ELSE @]

\* The do-while loop of rotateToNextKey: [currentIndex, ret].
RECURSIVE rotateLoop(_, _, _, _)
rotateLoop(ks, idx, startIndex, t) ==
  LET next == (idx + 1) % Cardinality(DOMAIN ks)
  IN  IF isKeyAvailable(ks[next], t) THEN [currentIndex |-> next, ret |-> TRUE]
      ELSE IF next # startIndex THEN rotateLoop(ks, next, startIndex, t)
      ELSE [currentIndex |-> next, ret |-> FALSE]

rotateToNextKeyStay(ks, idx, t) ==
  [currentIndex |-> idx, ret |-> \E i \in DOMAIN ks : isKeyAvailable(ks[i], t)]

rotateToNextKey(ks, idx, t) == rotateLoop(ks, idx, idx, t)

getStatusDeadInCooldown(ks, t) ==
  [total |-> Cardinality(DOMAIN ks),
   active |-> Cardinality({i \in DOMAIN ks : ~ks[i].isDead /\ isKeyAvailable(ks[i], t)}),
   cooldown |-> Cardinality({i \in DOMAIN ks : ~isKeyAvailable(ks[i], t)}),
   dead |-> Cardinality({i \in DOMAIN ks : ks[i].isDead})]

getStatus(ks, t) ==
  [total |-> Cardinality(DOMAIN ks),
   active |-> Cardinality({i \in DOMAIN ks : ~ks[i].isDead /\ isKeyAvailable(ks[i], t)}),
   cooldown |-> Cardinality({i \in DOMAIN ks : ~ks[i].isDead /\ ~isKeyAvailable(ks[i], t)}),
   dead |-> Cardinality({i \in DOMAIN ks : ks[i].isDead})]

\* ---- exaClient: outbound call and classification of its outcome ---------

BALANCE_ERROR_CODES == {402, 429}
BALANCE_ERROR_KEYWORDS == {"balance", "quota", "credit", "limit", "insufficient", "exceeded", "payment"}

\* What the upstream API (or the network) does with one outbound call.
Upstream ==
  { [kind |-> "ok",      status |-> 200, body |-> ""],
    [kind |-> "http",    status |-> 402, body |-> "Request rejected"],
    [kind |-> "http",    status |-> 429, body |-> "Request rejected"],
    [kind |-> "http",    status |-> 403, body |-> "Quota exceeded"],
    [kind |-> "http",    status |-> 403, body |-> "Request rejected"],
    [kind |-> "http",    status |-> 500, body |-> "Request rejected"],
    [kind |-> "timeout", status |-> 0,   body |-> ""],
    [kind |-> "network", status |-> 0,   body |-> ""] }

toLowerCase(text) ==
  CASE text = "Quota exceeded" -> "quota exceeded"
    [] text = "Request rejected" -> "request rejected"
    [] text = "Request failed with status code" -> "request failed with status code"
    [] text = "Request timeout" -> "request timeout"
    [] text = "Network Error" -> "network error"
    [] OTHER -> text

\* String.prototype.includes on the (lower-cased) texts of the model.
includes(text, keyword) ==
  text = "quota exceeded" /\ keyword \in {"quota", "exceeded"}

isBalanceError(status, errorMessage) ==
  IF status \in BALANCE_ERROR_CODES THEN TRUE
  ELSE IF status = 403 /\ errorMessage # ""
       THEN \E keyword \in BALANCE_ERROR_KEYWORDS : includes(toLowerCase(errorMessage), keyword)
       ELSE FALSE

\* An error object as the two execution paths throw it.  status = 0 stands
\* for "no response / no status"; dataError = "" for "no response.data.error".
Thrown(axiosErr, st, dataErr, msg) ==
  [isAxiosError |-> axiosErr, status |-> st, dataError |-> dataErr, message |-> msg]

\* executeWithAxios: [ok, error] for an upstream outcome.
executeWithAxios(u) ==
  CASE u.kind = "ok"   -> [ok |-> TRUE,  error |-> Thrown(FALSE, 0, "", "")]
    [] u.kind = "http" -> [ok |-> FALSE, error |-> Thrown(TRUE, u.status, u.body, "Request failed with status code")]
    [] u.kind = "timeout" -> [ok |-> FALSE, error |-> Thrown(TRUE, 0, "", "Request timeout")]
    [] OTHER -> [ok |-> FALSE, error |-> Thrown(TRUE, 0, "", "Network Error")]

\* executeWithFetch: [ok, error] for an upstream outcome.
executeWithFetch(u) ==
  CASE u.kind = "ok"   -> [ok |-> TRUE,  error |-> Thrown(FALSE, 0, "", "")]
    [] u.kind = "http" -> [ok |-> FALSE, error |-> Thrown(FALSE, u.status, u.body, u.body)]
    [] u.kind = "timeout" -> [ok |-> FALSE, error |-> Thrown(FALSE, 408, "", "Request timeout")]
    [] OTHER -> [ok |-> FALSE, error |-> Thrown(FALSE, 0, "", "Network Error")]

executeRequest(u) == IF isDeno THEN executeWithFetch(u) ELSE executeWithAxios(u)

extractErrorMessage(error) ==
  IF error.isAxiosError
  THEN IF error.dataError # "" THEN error.dataError
       ELSE IF error.message # "" THEN error.message
       ELSE "Unknown axios error"
  ELSE error.message

extractStatusCode(error) ==
  IF error.isAxiosError THEN error.status ELSE 0

\* The test of the catch block: rotate on this error?
classifiedAnyKey(usingManagedKey, error) ==
  isBalanceError(extractStatusCode(error), extractErrorMessage(error))

classified(usingManagedKey, error) ==
  usingManagedKey /\ isBalanceError(extractStatusCode(error), extractErrorMessage(error))

\* ---- durable store --------------------------------------------------------

\* saveStateToKv(index): the store after the write; ok = the write succeeds.
saveStateToKv(store, ks, index, ok) ==
  IF kv = "null" \/ index >= Cardinality(DOMAIN ks) THEN store
  ELSE IF ok
       THEN [store EXCEPT ![index] = Some([failedAt |-> ks[index].failedAt,
                                           retryCount |-> ks[index].retryCount,
                                           isDead |-> ks[index].isDead])]
       ELSE store

\* Whether kv.set resolves; without a store saveStateToKv returns at once.
WriteOutcomes == {kv # "down"}

\* ---- callers ---------------------------------------------------------------

NoResult == [kind |-> "none"]
NoCause == [kind |-> "none", status |-> 0, body |-> ""]

IdleReq ==
  [op |-> "none", managed |-> FALSE, apiKey |-> NoKey, saveOk |-> TRUE,
   rotated |-> FALSE, newKey |-> NoKey, markIdx |-> NaN, resetI |-> 0,
   startIndex |-> NaN, cause |-> NoCause, calls |-> 0, marks |-> 0, disturbed |-> FALSE,
   startedAt |-> 0, result |-> NoResult]

Init ==
  /\ \E n \in 0 .. MaxKeys : keys = [i \in 0 .. n - 1 |-> KeyState(i + 1)]
  /\ currentIndex = 0
  /\ cooldownMs \in 0 .. MaxCooldown
  /\ maxRetries \in 1 .. MaxRetriesCfg
  /\ isDeno \in BOOLEAN
  /\ kv \in (IF isDeno THEN {"null", "up", "down"} ELSE {"null"})
  /\ kvStore = [i \in DOMAIN keys |-> Null]
  /\ now = 0
  /\ pc = [p \in Procs |-> "idle"]
  /\ req = [p \in Procs |-> IdleReq]
  /\ env = [MCP_AUTH_TOKEN |-> <<>>, USER_TOKENS |-> <<>>]
  /\ tokens = <<>>
  /\ tokenStore = <<>>
  /\ sessions = {}
  /\ issued = {}
  /\ initialized = TRUE

\* No finished operation is waiting for its caller: the caller's continuation
\* runs right after the operation ends, before any other handler.
AllTaken == \A q \in Procs : pc[q] # "done"

\* Date.now() advances.
Tick ==
  /\ AllTaken
  /\ now < MaxTime
  /\ now' = now + 1
  /\ UNCHANGED <<keys, currentIndex, config, tokenManager, runtime, kvStore, pc, req>>

\* An operation ends; its result is in req[p].result.
Finish(p, r, res) ==
  /\ pc' = [pc EXCEPT ![p] = "done"]
  /\ req' = [req EXCEPT ![p] = [r EXCEPT !.result = res]]

\* The caller takes the result of its finished operation.
Return(p) ==
  /\ pc[p] = "done"
  /\ pc' = [pc EXCEPT ![p] = "idle"]
  /\ req' = [req EXCEPT ![p] = IdleReq]
  /\ UNCHANGED <<keys, currentIndex, config, tokenManager, runtime, kvStore, now>>

\* ---- ApiKeyManager: the public operations, called directly ----------------

CallGetActiveKey(p) ==
  /\ AllTaken
  /\ pc[p] = "idle"
  /\ LET g == getActiveKey(keys, currentIndex, now)
     IN  /\ keys' = g.keys
         /\ currentIndex' = g.currentIndex
         /\ Finish(p, [IdleReq EXCEPT !.op = "getActiveKey", !.startIndex = currentIndex],
                   [kind |-> "key", key |-> g.ret])
  /\ UNCHANGED <<config, tokenManager, runtime, kvStore, now>>

\* markCurrentKeyFailed up to its await: the key at the cursor is marked and
\* its state handed to the store.  A resetAllKeys call that is suspended at a
\* store write meanwhile is noted as disturbed (bookkeeping of the model).
MarkHead(p, r) ==
  /\ keys' = [keys EXCEPT ![currentIndex] = markFailed(@, now)]
  /\ \E ok \in WriteOutcomes :
       /\ kvStore' = saveStateToKv(kvStore, keys', currentIndex, ok)
       /\ req' = [q \in Procs |->
                    IF q = p
                    THEN [r EXCEPT !.saveOk = ok, !.markIdx = currentIndex, !.marks = @ + 1]
                    ELSE IF pc[q] = "resetting"
                         THEN [req[q] EXCEPT !.disturbed = TRUE]
                         ELSE req[q]]
  /\ pc' = [pc EXCEPT ![p] = "saving"]
  /\ UNCHANGED <<currentIndex, config, tokenManager, runtime, now>>

CallMarkCurrentKeyFailed(p) ==
  /\ AllTaken
  /\ pc[p] = "idle"
  /\ IF KeysLength = 0
     THEN /\ Finish(p, [IdleReq EXCEPT !.op = "markCurrentKeyFailed"], [kind |-> "bool", value |-> FALSE])
          /\ UNCHANGED <<keys, currentIndex, config, tokenManager, runtime, kvStore, now>>
     ELSE /\ keys[currentIndex].retryCount < MaxRetryCount
          /\ MarkHead(p, [IdleReq EXCEPT !.op = "markCurrentKeyFailed"])

\* markCurrentKeyFailed after its await: the store write failed and the
\* operation rejects without rotating.
SaveFailed(p) ==
  /\ AllTaken
  /\ pc[p] = "saving"
  /\ ~req[p].saveOk
  /\ Finish(p, req[p], [kind |-> "storeError"])
  /\ UNCHANGED <<keys, currentIndex, config, tokenManager, runtime, kvStore, now>>

\* markCurrentKeyFailed after its await: rotateToNextKey and return.
RotateAfterSave(p) ==
  /\ AllTaken
  /\ pc[p] = "saving"
  /\ req[p].saveOk
  /\ LET rot == rotateToNextKey(keys, currentIndex, now)
     IN  /\ currentIndex' = rot.currentIndex
         /\ IF req[p].op = "markCurrentKeyFailed"
            THEN Finish(p, req[p], [kind |-> "bool", value |-> rot.ret])
            ELSE /\ pc' = [pc EXCEPT ![p] = "rotated"]
                 /\ req' = [req EXCEPT ![p].rotated = rot.ret,
                                        ![p].markIdx = NaN,
                                        ![p].cause = NoCause]
  /\ UNCHANGED <<keys, config, tokenManager, runtime, kvStore, now>>

CallRotateToNextKey(p) ==
  /\ AllTaken
  /\ pc[p] = "idle"
  /\ IF KeysLength = 0
     THEN /\ currentIndex' = NaN
          /\ Finish(p, [IdleReq EXCEPT !.op = "rotateToNextKey"], [kind |-> "typeError"])
     ELSE LET rot == rotateToNextKey(keys, currentIndex, now)
          IN  /\ currentIndex' = rot.currentIndex
              /\ Finish(p, [IdleReq EXCEPT !.op = "rotateToNextKey"], [kind |-> "bool", value |-> rot.ret])
  /\ UNCHANGED <<keys, config, tokenManager, runtime, kvStore, now>>

CallGetStatus(p) ==
  /\ AllTaken
  /\ pc[p] = "idle"
  /\ Finish(p, [IdleReq EXCEPT !.op = "getStatus"], [kind |-> "status", status |-> getStatus(keys, now)])
  /\ UNCHANGED <<keys, currentIndex, config, tokenManager, runtime, kvStore, now>>

resetKeyKeepRetry(ks, i) ==
  [ks EXCEPT ![i].failedAt = Null, ![i].isDead = FALSE]

\* One iteration of the loop of resetAllKeys, up to its await.
resetKey(ks, i) ==
  [ks EXCEPT ![i].failedAt = Null, ![i].retryCount = 0, ![i].isDead = FALSE]

ResetHead(p, r, i) ==
  /\ keys' = resetKey(keys, i)
  /\ \E ok \in WriteOutcomes :
       /\ kvStore' = saveStateToKv(kvStore, keys', i, ok)
       /\ req' = [req EXCEPT ![p] = [r EXCEPT !.saveOk = ok, !.resetI = i]]
  /\ pc' = [pc EXCEPT ![p] = "resetting"]
  /\ UNCHANGED <<currentIndex, config, tokenManager, runtime, now>>

CallResetAllKeys(p) ==
  /\ AllTaken
  /\ pc[p] = "idle"
  /\ IF KeysLength = 0
     THEN /\ currentIndex' = 0
          /\ Finish(p, [IdleReq EXCEPT !.op = "resetAllKeys"], [kind |-> "void"])
          /\ UNCHANGED <<keys, config, tokenManager, runtime, kvStore, now>>
     ELSE ResetHead(p, [IdleReq EXCEPT !.op = "resetAllKeys"], 0)

ResetFailed(p) ==
  /\ AllTaken
  /\ pc[p] = "resetting"
  /\ ~req[p].saveOk
  /\ Finish(p, req[p], [kind |-> "storeError"])
  /\ UNCHANGED <<keys, currentIndex, config, tokenManager, runtime, kvStore, now>>

ResetNext(p) ==
  /\ AllTaken
  /\ pc[p] = "resetting"
  /\ req[p].saveOk
  /\ IF req[p].resetI + 1 < KeysLength
     THEN ResetHead(p, req[p], req[p].resetI + 1)
     ELSE /\ currentIndex' = 0
          /\ Finish(p, req[p], [kind |-> "void"])
          /\ UNCHANGED <<keys, config, tokenManager, runtime, kvStore, now>>

\* ---- exaClient: makeExaRequest ---------------------------------------------

\* Entry up to the first await of executeRequest: pick the credential and
\* issue the first outbound call.
StartRequest(p) ==
  /\ AllTaken
  /\ pc[p] = "idle"
  /\ \E override \in BOOLEAN :
       IF override
       THEN /\ pc' = [pc EXCEPT ![p] = "call1"]
            /\ req' = [req EXCEPT ![p] = [IdleReq EXCEPT !.op = "makeExaRequest",
                                                         !.apiKey = OverrideKey,
                                                         !.calls = 1]]
            /\ UNCHANGED <<keys, currentIndex>>
       ELSE LET g == getActiveKey(keys, currentIndex, now)
            IN  /\ keys' = g.keys
                /\ currentIndex' = g.currentIndex
                /\ IF g.ret = NoKey
                   THEN Finish(p, [IdleReq EXCEPT !.op = "makeExaRequest", !.managed = TRUE],
                               [kind |-> "noKeyAvailable"])
                   ELSE /\ pc' = [pc EXCEPT ![p] = "call1"]
                        /\ req' = [req EXCEPT ![p] = [IdleReq EXCEPT !.op = "makeExaRequest",
                                                                     !.managed = TRUE,
                                                                     !.apiKey = g.ret,
                                                                     !.startedAt = now,
                                                                     !.calls = 1]]
  /\ UNCHANGED <<config, tokenManager, runtime, kvStore, now>>

\* The first outbound call resolves.
FirstCallSucceeds(p) ==
  /\ AllTaken
  /\ pc[p] = "call1"
  /\ \E u \in Upstream :
       /\ executeRequest(u).ok
       /\ Finish(p, req[p], [kind |-> "data"])
  /\ UNCHANGED <<keys, currentIndex, config, tokenManager, runtime, kvStore, now>>

\* The first outbound call rejects and the catch block rethrows the error.
FirstCallFails(p) ==
  /\ AllTaken
  /\ pc[p] = "call1"
  /\ \E u \in Upstream :
       /\ ~executeRequest(u).ok
       /\ ~classified(req[p].managed, executeRequest(u).error)
       /\ Finish(p, [req[p] EXCEPT !.cause = u],
                 [kind |-> "error", error |-> executeRequest(u).error])
  /\ UNCHANGED <<keys, currentIndex, config, tokenManager, runtime, kvStore, now>>

\* The first outbound call rejects with a balance/quota error on a managed
\* key: the catch block calls markCurrentKeyFailed.
FirstCallFailsQuota(p) ==
  /\ AllTaken
  /\ pc[p] = "call1"
  /\ \E u \in Upstream :
       /\ ~executeRequest(u).ok
       /\ classified(req[p].managed, executeRequest(u).error)
       /\ IF KeysLength = 0
          THEN /\ pc' = [pc EXCEPT ![p] = "rotated"]
               /\ req' = [req EXCEPT ![p].rotated = FALSE, ![p].marks = @ + 1]
               /\ UNCHANGED <<keys, currentIndex, config, tokenManager, runtime, kvStore, now>>
          ELSE /\ keys[currentIndex].retryCount < MaxRetryCount
               /\ MarkHead(p, [req[p] EXCEPT !.cause = u])

AfterRotationNoSnapshot(p) ==
  /\ AllTaken
  /\ pc[p] = "rotated"
  /\ IF req[p].rotated
     THEN LET g == getActiveKey(keys, currentIndex, now)
          IN  /\ keys' = g.keys
              /\ currentIndex' = g.currentIndex
              /\ IF g.ret # NoKey
                 THEN /\ pc' = [pc EXCEPT ![p] = "call2"]
                      /\ req' = [req EXCEPT ![p].newKey = g.ret, ![p].calls = @ + 1]
                 ELSE Finish(p, req[p], [kind |-> "noKeyAvailable"])
     ELSE /\ Finish(p, req[p], [kind |-> "noKeyAvailable"])
          /\ UNCHANGED <<keys, currentIndex>>
  /\ UNCHANGED <<config, tokenManager, runtime, kvStore, now>>

\* markCurrentKeyFailed has returned: retry once, or give up.
AfterRotation(p) ==
  /\ AllTaken
  /\ pc[p] = "rotated"
  /\ IF req[p].rotated
     THEN LET g == getActiveKey(keys, currentIndex, now)
          IN  /\ keys' = g.keys
              /\ currentIndex' = g.currentIndex
              /\ IF g.ret # NoKey
                 THEN /\ pc' = [pc EXCEPT ![p] = "call2"]
                      /\ req' = [req EXCEPT ![p].newKey = g.ret, ![p].calls = @ + 1]
                 ELSE Finish(p, req[p], [kind |-> "allKeysExhausted",
                                         status |-> getStatus(g.keys, now)])
     ELSE /\ Finish(p, req[p], [kind |-> "allKeysExhausted", status |-> getStatus(keys, now)])
          /\ UNCHANGED <<keys, currentIndex>>
  /\ UNCHANGED <<config, tokenManager, runtime, kvStore, now>>

RetryReturnsMarking(p) ==
  /\ AllTaken
  /\ pc[p] = "call2"
  /\ \E u \in Upstream :
       IF executeRequest(u).ok
       THEN /\ Finish(p, req[p], [kind |-> "data"])
            /\ UNCHANGED keys
       ELSE /\ Finish(p, req[p], [kind |-> "error", error |-> executeRequest(u).error])
            /\ keys' = IF classified(req[p].managed, executeRequest(u).error)
                          /\ keys[currentIndex].retryCount < MaxRetryCount
                       THEN [keys EXCEPT ![currentIndex] = markFailed(@, now)]
                       ELSE keys
  /\ UNCHANGED <<currentIndex, config, tokenManager, runtime, kvStore, now>>

\* The retry resolves or rejects; either way that is the request's outcome.
RetryReturns(p) ==
  /\ AllTaken
  /\ pc[p] = "call2"
  /\ \E u \in Upstream :
       IF executeRequest(u).ok
       THEN Finish(p, req[p], [kind |-> "data"])
       ELSE Finish(p, req[p], [kind |-> "error", error |-> executeRequest(u).error])
  /\ UNCHANGED <<keys, currentIndex, config, tokenManager, runtime, kvStore, now>>

\* ---- the system -------------------------------------------------------------

\* Concurrent makeExaRequest calls of the tool handlers.
Next ==
  \/ Tick
  \/ \E p \in Procs : Return(p)
  \/ \E p \in Procs : StartRequest(p)
  \/ \E p \in Procs : FirstCallSucceeds(p)
  \/ \E p \in Procs : FirstCallFails(p)
  \/ \E p \in Procs : FirstCallFailsQuota(p)
  \/ \E p \in Procs : RotateAfterSave(p)
  \/ \E p \in Procs : AfterRotation(p)
  \/ \E p \in Procs : RetryReturns(p)

Spec == Init /\ [][Next]_vars

\* The public operations of ApiKeyManager, called directly by concurrent callers.
NextPool ==
  \/ Tick
  \/ \E p \in Procs : Return(p)
  \/ \E p \in Procs : CallGetActiveKey(p)
  \/ \E p \in Procs : CallMarkCurrentKeyFailed(p)
  \/ \E p \in Procs : SaveFailed(p)
  \/ \E p \in Procs : RotateAfterSave(p)
  \/ \E p \in Procs : CallRotateToNextKey(p)
  \/ \E p \in Procs : CallGetStatus(p)
  \/ \E p \in Procs : CallResetAllKeys(p)
  \/ \E p \in Procs : ResetFailed(p)
  \/ \E p \in Procs : ResetNext(p)

SpecPool == Init /\ [][NextPool]_vars

\* One caller that does nothing but call markCurrentKeyFailed, awaiting each
\* call before the next.
FirstCaller == CHOOSE p \in Procs : \A q \in Procs : p <= q

NextRoundRobin ==
  \/ Tick
  \/ Return(FirstCaller)
  \/ CallMarkCurrentKeyFailed(FirstCaller)
  \/ SaveFailed(FirstCaller)
  \/ RotateAfterSave(FirstCaller)

SpecRoundRobin == Init /\ [][NextRoundRobin]_vars

\* The caller has obtained a credential from getActiveKey; the call made with
\* it fails with a quota error and the caller reports it.
UseKeyAndFail(p) ==
  /\ pc[p] = "done"
  /\ req[p].op = "getActiveKey"
  /\ req[p].result.key # NoKey
  /\ keys[currentIndex].retryCount < MaxRetryCount
  /\ MarkHead(p, [IdleReq EXCEPT !.op = "markCurrentKeyFailed"])

\* One caller whose every use of a credential fails: it asks for the active
\* credential, reports its failure, and now and then resets the pool.
NextFlaky ==
  \/ Tick
  \/ Return(FirstCaller)
  \/ CallGetActiveKey(FirstCaller)
  \/ UseKeyAndFail(FirstCaller)
  \/ SaveFailed(FirstCaller)
  \/ RotateAfterSave(FirstCaller)
  \/ CallResetAllKeys(FirstCaller)
  \/ ResetFailed(FirstCaller)
  \/ ResetNext(FirstCaller)

SpecFlaky == Init /\ [][NextFlaky]_vars

\* ---- TokenManager: configuration and validation -------------------------------

\* Strings are sequences of character codes: the empty string and three token
\* strings, of which two have the same length.
Strings == {<<>>, <<1>>, <<2>>, <<1, 2>>}

\* The expiry field of a USER_TOKENS entry, trimmed and lower-cased.
ExpiryStrings ==
  {[kind |-> "never", at |-> 0]} \cup {[kind |-> "date", at |-> t] : t \in 1 .. MaxTime - 1}

\* One entry of USER_TOKENS after split(':'): parts[0], parts[1] || null, parts[2].
Entries == [token : Strings, userId : {Null}, expiry : ExpiryStrings]

RECURSIVE SeqsUpTo(_, _)
SeqsUpTo(S, n) ==
  IF n = 0 THEN {<<>>}
  ELSE LET shorter == SeqsUpTo(S, n - 1)
       IN  shorter \cup {Append(q, x) : q \in shorter, x \in S}

Envs == [MCP_AUTH_TOKEN : Strings, USER_TOKENS : SeqsUpTo(Entries, MaxEntries)]

\* new Date(expiryStr), or null for the values that mean "never expires".
parseExpiry(expiryStr) ==
  IF expiryStr.kind = "date" THEN Some(expiryStr.at) ELSE Null

\* The loop of getTokensConfig over the USER_TOKENS entries.
RECURSIVE parseUserTokens(_)
parseUserTokens(tokenEntries) ==
  IF tokenEntries = <<>> THEN <<>>
  ELSE LET entry == Head(tokenEntries)
           rest == parseUserTokens(Tail(tokenEntries))
       IN  IF entry.token = <<>> THEN rest
           ELSE <<[token |-> entry.token, userId |-> entry.userId, role |-> "user",
                   expiresAt |-> parseExpiry(entry.expiry)]>> \o rest

getTokensConfigBoth(e) ==
  parseUserTokens(e.USER_TOKENS)
    \o (IF e.MCP_AUTH_TOKEN # <<>>
        THEN <<[token |-> e.MCP_AUTH_TOKEN, userId |-> Null, role |-> "admin", expiresAt |-> Null]>>
        ELSE <<>>)

getTokensConfig(e) ==
  LET configs == parseUserTokens(e.USER_TOKENS)
  IN  IF Len(configs) = 0 /\ e.MCP_AUTH_TOKEN # <<>>
      THEN <<[token |-> e.MCP_AUTH_TOKEN, userId |-> Null, role |-> "admin", expiresAt |-> Null]>>
      ELSE configs

TokenInfo(cfg, t) ==
  [token |-> cfg.token, userId |-> cfg.userId, role |-> cfg.role, expiresAt |-> cfg.expiresAt,
   createdAt |-> t, lastUsedAt |-> Null, usageCount |-> 0, isActive |-> TRUE]

\* The loop of initialize: this.tokens.set(config.token, tokenInfo) for each config.
RECURSIVE setTokens(_, _, _)
setTokens(m, configs, t) ==
  IF configs = <<>> THEN m
  ELSE LET cfg == Head(configs)
       IN  setTokens([x \in DOMAIN m \cup {cfg.token} |->
                        IF x = cfg.token THEN TokenInfo(cfg, t) ELSE m[x]],
                     Tail(configs), t)

\* The registry after initialize() at time t.
initialize(e, t) == setTokens(<<>>, getTokensConfig(e), t)

\* A validation result; reason "" and token Null stand for an absent field.
Result(v, why, info) == [valid |-> v, reason |-> why, token |-> info]

\* The checks made on the TokenInfo of a matching token.
checkTokenExpiryFirst(tokenInfo, t) ==
  IF tokenInfo.expiresAt # Null /\ t > tokenInfo.expiresAt[1]
  THEN Result(FALSE, "Token has expired", Some(tokenInfo))
  ELSE IF ~tokenInfo.isActive
       THEN Result(FALSE, "Token is disabled", Some(tokenInfo))
       ELSE Result(TRUE, "", Some(tokenInfo))

checkTokenInclusive(tokenInfo, t) ==
  IF ~tokenInfo.isActive
  THEN Result(FALSE, "Token is disabled", Some(tokenInfo))
  ELSE IF tokenInfo.expiresAt # Null /\ t >= tokenInfo.expiresAt[1]
       THEN Result(FALSE, "Token has expired", Some(tokenInfo))
       ELSE Result(TRUE, "", Some(tokenInfo))

checkToken(tokenInfo, t) ==
  IF ~tokenInfo.isActive
  THEN Result(FALSE, "Token is disabled", Some(tokenInfo))
  ELSE IF tokenInfo.expiresAt # Null /\ t > tokenInfo.expiresAt[1]
       THEN Result(FALSE, "Token has expired", Some(tokenInfo))
       ELSE Result(TRUE, "", Some(tokenInfo))

validate(m, providedToken, t) ==
  IF providedToken \notin DOMAIN m
  THEN Result(FALSE, "Token not found", Null)
  ELSE checkToken(m[providedToken], t)

\* Bitwise ^ and | on character codes.
RECURSIVE bitXor(_, _)
bitXor(x, y) ==
  IF x = 0 THEN y
  ELSE IF y = 0 THEN x
  ELSE ((x + y) % 2) + 2 * bitXor(x \div 2, y \div 2)

RECURSIVE bitOr(_, _)
bitOr(x, y) ==
  IF x = 0 THEN y
  ELSE IF y = 0 THEN x
  ELSE (IF x % 2 = 1 \/ y % 2 = 1 THEN 1 ELSE 0) + 2 * bitOr(x \div 2, y \div 2)

RECURSIVE constantTimeLoop(_, _, _, _)
constantTimeLoop(a, b, i, result) ==
  IF i > Len(a) THEN result
  ELSE constantTimeLoop(a, b, i + 1, bitOr(result, bitXor(a[i], b[i])))

constantTimeEqual(a, b) ==
  IF Len(a) # Len(b) THEN FALSE
  ELSE constantTimeLoop(a, b, 1, 0) = 0

\* An Authorization header: absent (null), or the text scheme + " " + value
\* (scheme "" with value "": the empty text).
AbsentHeader == [scheme |-> "absent", value |-> <<>>]
Bearer(token) == [scheme |-> "Bearer", value |-> token]

Headers ==
  {AbsentHeader, [scheme |-> "", value |-> <<>>]}
    \cup {Bearer(x) : x \in Strings}
    \cup {[scheme |-> "bearer", value |-> <<1>>], [scheme |-> "Basic", value |-> <<1>>]}

\* !authHeader
isMissing(authHeader) ==
  authHeader.scheme = "absent" \/ (authHeader.scheme = "" /\ authHeader.value = <<>>)

\* authHeader.match(/^Bearer\s+(.+)$/i): Null, or match[1].
matchBearer(authHeader) ==
  IF authHeader.scheme \in {"Bearer", "bearer"} /\ Len(authHeader.value) > 0
  THEN Some(authHeader.value)
  ELSE Null

validateAuthHeader(m, authHeader, t) ==
  IF DOMAIN m = {} THEN Result(TRUE, "No auth configured", Null)
  ELSE IF isMissing(authHeader) THEN Result(FALSE, "No Authorization header", Null)
  ELSE IF matchBearer(authHeader) = Null THEN Result(FALSE, "Invalid Authorization format", Null)
  ELSE LET providedToken == matchBearer(authHeader)[1]
           matching == {storedToken \in DOMAIN m : constantTimeEqual(providedToken, storedToken)}
       IN  IF matching = {} THEN Result(FALSE, "Token not found", Null)
           ELSE checkToken(m[CHOOSE storedToken \in matching : TRUE], t)

\* ---- TokenManager: persistence ------------------------------------------------

\* A 32-bit integer is kept as its two 16-bit halves <<high, low>>.
\* hash = ((hash << 5) - hash) + char; hash = hash & hash.
RECURSIVE hashLoop(_, _, _)
hashLoop(token, i, hash) ==
  IF i > Len(token) THEN hash
  ELSE LET low == 31 * hash[2] + token[i]
           high == 31 * hash[1] + low \div 65536
       IN  hashLoop(token, i + 1, <<high % 65536, low % 65536>>)

\* Math.abs of a 32-bit integer (two's complement), as <<high, low>>.
abs32(hash) ==
  IF hash[1] < 32768 THEN hash
  ELSE <<(65535 - hash[1] + (IF hash[2] = 0 THEN 1 ELSE 0)) % 65536, (65536 - hash[2]) % 65536>>

\* hashToken: the store key of a token, tok_ + the hexadecimal digits of the
\* absolute value of its hash.
hashToken(token) == abs32(hashLoop(token, 1, <<0, 0>>))

\* Date.prototype.toISOString
toISOString(date) == <<"iso", date>>

\* TokenManager.saveStateToKv(token): the store after the write.
saveTokenStateToKv(store, m, token, ok) ==
  IF kv = "null" \/ token \notin DOMAIN m THEN store
  ELSE IF ok
       THEN [store EXCEPT ![hashToken(token)] =
               Some([lastUsedAt |-> IF m[token].lastUsedAt = Null THEN Null
                                    ELSE toISOString(m[token].lastUsedAt[1]),
                     usageCount |-> m[token].usageCount,
                     isActive |-> m[token].isActive])]
       ELSE store

\* ---- authMiddleware and the /mcp endpoint --------------------------------------

\* main_deno.isPoolMode
isPoolMode(e) == e.MCP_AUTH_TOKEN # <<>>

\* authMiddleware.isAuthRequired
isAuthRequired(e) == e.MCP_AUTH_TOKEN # <<>>

\* TokenManager.hasTokens
hasTokens(m) == Cardinality(DOMAIN m) > 0

\* authMiddleware.validateAuthToken
validateAuthToken(e, authHeader) ==
  IF e.MCP_AUTH_TOKEN = <<>> THEN TRUE
  ELSE IF isMissing(authHeader) THEN FALSE
  ELSE IF matchBearer(authHeader) = Null THEN FALSE
  ELSE constantTimeEqual(matchBearer(authHeader)[1], e.MCP_AUTH_TOKEN)

\* An upstream credential supplied by the client of a request (exaApiKey query
\* parameter or X-Exa-Api-Key header); NoKey when the request carries none.
ClientKey == MaxKeys + 1

\* A request: URL path, method, Authorization header, the result of
\* extractPassthroughKey, the mcp-session-id header (0: none) and the body: an
\* initialize request, a tools/call request, or text that is not JSON.
Request(path, m, authHeader, key, sid, b) ==
  [pathname |-> path, method |-> m, authHeader |-> authHeader, clientKey |-> key,
   sessionId |-> sid, body |-> b]

\* A response of handleRequest itself (handler "none"), or the MCP handler the
\* request is passed to.
Response(st) == [status |-> st, handled |-> FALSE, handler |-> "none"]
Dispatch(h) == [status |-> 200, handled |-> TRUE, handler |-> h]

\* handleRequest up to the call of an MCP handler.
handleRequest(e, request) ==
  IF request.pathname \in {"/health", "/"} /\ request.method = "GET" THEN Response(200)
  ELSE IF request.pathname \in {"/mcp", "/"}
       THEN IF isPoolMode(e) /\ ~validateAuthToken(e, request.authHeader) THEN Response(401)
            ELSE IF ~isPoolMode(e) /\ request.clientKey = NoKey THEN Response(401)
            ELSE CASE request.method = "POST" -> Dispatch("handleMcpPost")
                   [] request.method = "GET" -> Dispatch("handleMcpGet")
                   [] request.method = "DELETE" -> Dispatch("handleMcpDelete")
                   [] OTHER -> Response(405)
       ELSE Response(404)

\* ---- TokenManager: administrative reads -------------------------------------------

PrefixLength == 8

\* String.prototype.substring(0, end)
substring(text, end) == SubSeq(text, 1, IF end < Len(text) THEN end ELSE Len(text))

\* The text "..."
Ellipsis == <<46, 46, 46>>

\* The tokens of the registry in the order of the Map: each token at the place
\* of its first configuration.
RECURSIVE insertionOrder(_, _)
insertionOrder(configs, seen) ==
  IF configs = <<>> THEN <<>>
  ELSE IF Head(configs).token \in seen THEN insertionOrder(Tail(configs), seen)
  ELSE <<Head(configs).token>> \o insertionOrder(Tail(configs), seen \cup {Head(configs).token})

\* TokenManager.listTokens: the array it returns.
listTokens(m, e, t) ==
  LET order == insertionOrder(getTokensConfig(e), {})
  IN  [i \in 1 .. Len(order) |->
         LET tokenInfo == m[order[i]]
         IN  [tokenPrefix |-> substring(tokenInfo.token, PrefixLength) \o Ellipsis,
              userId |-> tokenInfo.userId,
              role |-> tokenInfo.role,
              expiresAt |-> tokenInfo.expiresAt,
              isActive |-> tokenInfo.isActive,
              isExpired |-> IF tokenInfo.expiresAt # Null THEN t > tokenInfo.expiresAt[1] ELSE FALSE,
              usageCount |-> tokenInfo.usageCount,
              lastUsedAt |-> tokenInfo.lastUsedAt]]

\* ---- TokenManager and the endpoint: operations ----------------------------------

pool == <<keys, currentIndex, config, kvStore>>

\* The locals of a pending TokenManager operation or HTTP request.
TokenReq(o, a) == [op |-> o, arg |-> a, saveOk |-> TRUE, result |-> NoResult]

\* The state after the constructors and initialize() of both managers, in a
\* process that starts with an empty store and no upstream credential.
InitTokens ==
  /\ keys = <<>>
  /\ currentIndex = 0
  /\ cooldownMs = 0
  /\ maxRetries = 1
  /\ isDeno \in BOOLEAN
  /\ kv \in (IF isDeno THEN {"null", "up", "down"} ELSE {"null"})
  /\ kvStore = <<>>
  /\ now = 0
  /\ pc = [p \in Procs |-> "idle"]
  /\ req = [p \in Procs |-> IdleReq]
  /\ env \in Envs
  /\ tokens = initialize(env, 0)
  /\ tokenStore = [h \in {hashToken(x) : x \in DOMAIN tokens} |-> Null]
  /\ sessions = {}
  /\ issued = {}
  /\ initialized = TRUE

CallValidate(p) ==
  /\ AllTaken
  /\ pc[p] = "idle"
  /\ \E providedToken \in Strings :
       Finish(p, TokenReq("validate", providedToken),
              [kind |-> "validation", value |-> validate(tokens, providedToken, now)])
  /\ UNCHANGED <<pool, tokenManager, runtime, now>>

CallValidateAuthHeader(p) ==
  /\ AllTaken
  /\ pc[p] = "idle"
  /\ \E authHeader \in Headers :
       Finish(p, TokenReq("validateAuthHeader", authHeader),
              [kind |-> "validation", value |-> validateAuthHeader(tokens, authHeader, now)])
  /\ UNCHANGED <<pool, tokenManager, runtime, now>>

RecordHeadOncePerInstant(p, r, token) ==
  /\ tokens[token].usageCount < MaxUsage
  /\ tokens' = [tokens EXCEPT ![token].lastUsedAt = Some(now),
                              ![token].usageCount =
                                 IF tokens[token].lastUsedAt = Some(now) THEN @ ELSE @ + 1]
  /\ \E ok \in WriteOutcomes :
       /\ tokenStore' = saveTokenStateToKv(tokenStore, tokens', token, ok)
       /\ req' = [req EXCEPT ![p] = [r EXCEPT !.saveOk = ok]]
  /\ pc' = [pc EXCEPT ![p] = "recording"]
  /\ UNCHANGED <<pool, env, runtime, now>>

\* recordUsage up to its await: the record is updated and handed to the store.
RecordHead(p, r, token) ==
  /\ tokens[token].usageCount < MaxUsage
  /\ tokens' = [tokens EXCEPT ![token].lastUsedAt = Some(now),
                              ![token].usageCount = @ + 1]
  /\ \E ok \in WriteOutcomes :
       /\ tokenStore' = saveTokenStateToKv(tokenStore, tokens', token, ok)
       /\ req' = [req EXCEPT ![p] = [r EXCEPT !.saveOk = ok]]
  /\ pc' = [pc EXCEPT ![p] = "recording"]
  /\ UNCHANGED <<pool, env, runtime, now>>

CallRecordUsage(p) ==
  /\ AllTaken
  /\ pc[p] = "idle"
  /\ \E token \in Strings :
       IF token \notin DOMAIN tokens
       THEN /\ Finish(p, TokenReq("recordUsage", token), [kind |-> "void"])
            /\ UNCHANGED <<pool, tokenManager, runtime, now>>
       ELSE RecordHead(p, TokenReq("recordUsage", token), token)

CallRecordUsageFromAuthHeader(p) ==
  /\ AllTaken
  /\ pc[p] = "idle"
  /\ \E authHeader \in Headers :
       LET r == TokenReq("recordUsageFromAuthHeader", authHeader)
           matching == IF isMissing(authHeader) \/ matchBearer(authHeader) = Null THEN {}
                       ELSE {storedToken \in DOMAIN tokens :
                               constantTimeEqual(matchBearer(authHeader)[1], storedToken)}
       IN  IF matching = {}
           THEN /\ Finish(p, r, [kind |-> "void"])
                /\ UNCHANGED <<pool, tokenManager, runtime, now>>
           ELSE RecordHead(p, r, CHOOSE storedToken \in matching : TRUE)

\* recordUsage after its await: it returns, or rejects with the store's error.
RecordSaved(p) ==
  /\ AllTaken
  /\ pc[p] = "recording"
  /\ Finish(p, req[p], IF req[p].saveOk THEN [kind |-> "void"] ELSE [kind |-> "storeError"])
  /\ UNCHANGED <<pool, tokenManager, runtime, now>>

SetActiveResetsUsage(p, o, active) ==
  \E token \in Strings :
    IF token \notin DOMAIN tokens
    THEN /\ Finish(p, TokenReq(o, token), [kind |-> "bool", value |-> FALSE])
         /\ UNCHANGED <<pool, tokenManager, runtime, now>>
    ELSE /\ tokens' = [tokens EXCEPT ![token].isActive = active, ![token].usageCount = 0]
         /\ \E ok \in WriteOutcomes :
              /\ tokenStore' = saveTokenStateToKv(tokenStore, tokens', token, ok)
              /\ req' = [req EXCEPT ![p] = [TokenReq(o, token) EXCEPT !.saveOk = ok]]
         /\ pc' = [pc EXCEPT ![p] = "toggling"]
         /\ UNCHANGED <<pool, env, runtime, now>>

\* disableToken / enableToken up to the await.
SetActive(p, o, active) ==
  \E token \in Strings :
    IF token \notin DOMAIN tokens
    THEN /\ Finish(p, TokenReq(o, token), [kind |-> "bool", value |-> FALSE])
         /\ UNCHANGED <<pool, tokenManager, runtime, now>>
    ELSE /\ tokens' = [tokens EXCEPT ![token].isActive = active]
         /\ \E ok \in WriteOutcomes :
              /\ tokenStore' = saveTokenStateToKv(tokenStore, tokens', token, ok)
              /\ req' = [req EXCEPT ![p] = [TokenReq(o, token) EXCEPT !.saveOk = ok]]
         /\ pc' = [pc EXCEPT ![p] = "toggling"]
         /\ UNCHANGED <<pool, env, runtime, now>>

CallDisableToken(p) ==
  /\ AllTaken
  /\ pc[p] = "idle"
  /\ SetActive(p, "disableToken", FALSE)

CallEnableToken(p) ==
  /\ AllTaken
  /\ pc[p] = "idle"
  /\ SetActive(p, "enableToken", TRUE)

\* disableToken / enableToken after the await.
ToggleSaved(p) ==
  /\ AllTaken
  /\ pc[p] = "toggling"
  /\ Finish(p, req[p], IF req[p].saveOk THEN [kind |-> "bool", value |-> TRUE]
                       ELSE [kind |-> "storeError"])
  /\ UNCHANGED <<pool, tokenManager, runtime, now>>

\* A POST request to /mcp arrives and is authenticated.
HandleMcpRequest(p) ==
  /\ AllTaken
  /\ pc[p] = "idle"
  /\ \E authHeader \in Headers : \E clientKey \in {NoKey, ClientKey} :
       Finish(p, TokenReq("handleRequest", authHeader),
              [kind |-> "response",
               value |-> handleRequest(env, Request("/mcp", "POST", authHeader, clientKey, 0, "initialize"))])
  /\ UNCHANGED <<pool, tokenManager, runtime, now>>

\* A GET request to /admin/tokens arrives.
HandleAdminRequest(p) ==
  /\ AllTaken
  /\ pc[p] = "idle"
  /\ \E authHeader \in Headers :
       Finish(p, TokenReq("adminTokens", authHeader),
              [kind |-> "response",
               value |-> handleRequest(env, Request("/admin/tokens", "GET", authHeader, NoKey, 0, ""))])
  /\ UNCHANGED <<pool, tokenManager, runtime, now>>

CallListTokens(p) ==
  /\ AllTaken
  /\ pc[p] = "idle"
  /\ Finish(p, TokenReq("listTokens", <<>>),
            [kind |-> "list", value |-> listTokens(tokens, env, now)])
  /\ UNCHANGED <<pool, tokenManager, runtime, now>>

\* Validation and administration of the registry, and the /mcp endpoint.
NextAuth ==
  \/ Tick
  \/ Return(FirstCaller)
  \/ CallValidate(FirstCaller)
  \/ CallValidateAuthHeader(FirstCaller)
  \/ CallDisableToken(FirstCaller)
  \/ CallEnableToken(FirstCaller)
  \/ ToggleSaved(FirstCaller)
  \/ HandleMcpRequest(FirstCaller)
  \/ HandleAdminRequest(FirstCaller)
  \/ CallListTokens(FirstCaller)

SpecAuth == InitTokens /\ [][NextAuth]_vars

\* Concurrent requests recording their usage.
NextUsage ==
  \/ Tick
  \/ \E p \in Procs : Return(p)
  \/ \E p \in Procs : CallRecordUsage(p)
  \/ \E p \in Procs : CallRecordUsageFromAuthHeader(p)
  \/ \E p \in Procs : RecordSaved(p)

\* A deployment configured with USER_TOKENS alone.
InitUsage == InitTokens /\ env.MCP_AUTH_TOKEN = <<>>

SpecUsage == InitUsage /\ [][NextUsage]_vars

\* ---- main_deno: the HTTP server ------------------------------------------------

MaxSessions == 2

\* The config object createServer hands to every tool: exaApiKey is undefined.
ServerConfig == [exaApiKey |-> NoKey]

\* The locals of a pending HTTP request: those of the makeExaRequest call its
\* tool makes, the request itself, and the session id of the transport the
\* handler took from the sessions map (0: none).  It is noted whether the
\* request arrived with the id of a session closed before (bookkeeping of the
\* model).
HttpReq(request) ==
  [op |-> "http", managed |-> FALSE, apiKey |-> NoKey, saveOk |-> TRUE,
   rotated |-> FALSE, newKey |-> NoKey, markIdx |-> NaN, resetI |-> 0,
   startIndex |-> NaN, cause |-> NoCause, calls |-> 0, marks |-> 0, disturbed |-> FALSE,
   result |-> NoResult, request |-> request, transport |-> 0,
   stale |-> request.sessionId \in issued \ sessions]

Requests ==
  { Request(path, m, authHeader, key, sid, b) :
      path \in {"/health", "/", "/mcp", "/admin/tokens"},
      m \in {"GET", "POST", "DELETE", "PUT"},
      authHeader \in {AbsentHeader, Bearer(<<1>>), Bearer(<<2>>), [scheme |-> "Basic", value |-> <<1>>]},
      key \in {NoKey, ClientKey},
      sid \in 0 .. MaxSessions,
      b \in {"initialize", "tools/call", "not JSON"} }

\* The deployments of the server: always on Deno, with or without
\* MCP_AUTH_TOKEN and with or without one USER_TOKENS entry.
InitHttp ==
  /\ \E n \in 0 .. MaxKeys : keys = [i \in 0 .. n - 1 |-> KeyState(i + 1)]
  /\ currentIndex = 0
  /\ cooldownMs = MaxCooldown
  /\ maxRetries = MaxRetriesCfg
  /\ isDeno = TRUE
  /\ kv \in {"null", "up", "down"}
  /\ kvStore = [i \in DOMAIN keys |-> Null]
  /\ now = 0
  /\ pc = [p \in Procs |-> "idle"]
  /\ req = [p \in Procs |-> IdleReq]
  /\ env \in [MCP_AUTH_TOKEN : {<<>>, <<1>>},
              USER_TOKENS : {<<>>, <<[token |-> <<2>>, userId |-> Null,
                                      expiry |-> [kind |-> "never", at |-> 0]]>>}]
  /\ tokens = initialize(env, 0)
  /\ tokenStore = [h \in {hashToken(x) : x \in DOMAIN tokens} |-> Null]
  /\ sessions = {}
  /\ issued = {}
  /\ initialized = TRUE

\* handleRequest, and the synchronous head of the MCP handler it calls:
\* handleMcpPost up to the read of the body, handleMcpGet and handleMcpDelete
\* up to their use of the transport.
HandleRequestFrom(p, requests) ==
  /\ AllTaken
  /\ pc[p] = "idle"
  /\ \E request \in requests :
       LET r == handleRequest(env, request)
           known == request.sessionId # 0 /\ request.sessionId \in sessions
       IN  CASE r.handler = "none" ->
                  Finish(p, HttpReq(request), [kind |-> "response", value |-> r])
             [] r.handler = "handleMcpPost" ->
                  /\ pc' = [pc EXCEPT ![p] = "handleMcpPost"]
                  /\ req' = [req EXCEPT ![p] = HttpReq(request)]
             [] r.handler = "handleMcpGet" ->
                  IF known
                  THEN /\ pc' = [pc EXCEPT ![p] = "transport"]
                       /\ req' = [req EXCEPT ![p] = [HttpReq(request) EXCEPT
                                                       !.transport = request.sessionId]]
                  ELSE Finish(p, HttpReq(request), [kind |-> "response", value |-> Response(404)])
             [] r.handler = "handleMcpDelete" ->
                  IF known
                  THEN /\ pc' = [pc EXCEPT ![p] = "closing"]
                       /\ req' = [req EXCEPT ![p] = [HttpReq(request) EXCEPT
                                                       !.transport = request.sessionId]]
                  ELSE Finish(p, HttpReq(request), [kind |-> "response", value |-> Response(204)])
  /\ UNCHANGED <<pool, tokenManager, runtime, now>>

HandleRequest(p) == HandleRequestFrom(p, Requests)

\* handleMcpPost once the body is read: parse it and find or create the
\* transport.
McpPostBody(p) ==
  /\ AllTaken
  /\ pc[p] = "handleMcpPost"
  /\ LET request == req[p].request
     IN  IF request.body = "not JSON"
         THEN Finish(p, req[p], [kind |-> "response", value |-> Response(400)])
         ELSE IF request.sessionId # 0 /\ request.sessionId \in sessions
              THEN /\ pc' = [pc EXCEPT ![p] = "transport"]
                   /\ req' = [req EXCEPT ![p].transport = request.sessionId]
              ELSE IF request.body = "initialize"
                   THEN /\ pc' = [pc EXCEPT ![p] = "connecting"]
                        /\ UNCHANGED req
                   ELSE Finish(p, req[p], [kind |-> "response", value |-> Response(400)])
  /\ UNCHANGED <<pool, tokenManager, runtime, now>>

\* handleMcpPost after server.connect: the new transport handles the
\* initialize request and onsessioninitialized stores it under a fresh id.
SessionInitialized(p) ==
  /\ AllTaken
  /\ pc[p] = "connecting"
  /\ \E id \in (1 .. MaxSessions) \ issued :
       /\ sessions' = sessions \cup {id}
       /\ issued' = issued \cup {id}
  /\ Finish(p, req[p], [kind |-> "response", value |-> Response(200)])
  /\ UNCHANGED <<pool, tokenManager, initialized, now>>

\* The transport of an existing session answers a request that calls no tool.
TransportResponds(p) ==
  /\ AllTaken
  /\ pc[p] = "transport"
  /\ ~(req[p].request.method = "POST" /\ req[p].request.body = "tools/call")
  /\ Finish(p, req[p], [kind |-> "response", value |-> Response(200)])
  /\ UNCHANGED <<pool, tokenManager, runtime, now>>

\* The transport of an existing session runs a tool: the tool calls
\* makeExaRequest with the exaApiKey of the server's config, which picks the
\* credential and issues the first outbound call.
ToolCall(p) ==
  /\ AllTaken
  /\ pc[p] = "transport"
  /\ req[p].request.method = "POST" /\ req[p].request.body = "tools/call"
  /\ IF ServerConfig.exaApiKey # NoKey
     THEN /\ pc' = [pc EXCEPT ![p] = "call1"]
          /\ req' = [req EXCEPT ![p].apiKey = ServerConfig.exaApiKey, ![p].calls = 1]
          /\ UNCHANGED <<keys, currentIndex>>
     ELSE LET g == getActiveKey(keys, currentIndex, now)
          IN  /\ keys' = g.keys
              /\ currentIndex' = g.currentIndex
              /\ IF g.ret = NoKey
                 THEN Finish(p, [req[p] EXCEPT !.managed = TRUE], [kind |-> "noKeyAvailable"])
                 ELSE /\ pc' = [pc EXCEPT ![p] = "call1"]
                      /\ req' = [req EXCEPT ![p].managed = TRUE, ![p].apiKey = g.ret,
                                             ![p].calls = 1]
  /\ UNCHANGED <<config, tokenManager, runtime, kvStore, now>>

SessionClosedKeepsEntry(p) ==
  /\ AllTaken
  /\ pc[p] = "closing"
  /\ sessions' = sessions
  /\ Finish(p, req[p], [kind |-> "response", value |-> Response(204)])
  /\ UNCHANGED <<pool, tokenManager, issued, initialized, now>>

\* handleMcpDelete after transport.close(): the session is removed.
SessionClosed(p) ==
  /\ AllTaken
  /\ pc[p] = "closing"
  /\ sessions' = sessions \ {req[p].request.sessionId}
  /\ Finish(p, req[p], [kind |-> "response", value |-> Response(204)])
  /\ UNCHANGED <<pool, tokenManager, issued, initialized, now>>

\* The server handling one request after the other.
NextHttp ==
  \/ Return(FirstCaller)
  \/ HandleRequest(FirstCaller)
  \/ McpPostBody(FirstCaller)
  \/ SessionInitialized(FirstCaller)
  \/ TransportResponds(FirstCaller)
  \/ ToolCall(FirstCaller)
  \/ FirstCallSucceeds(FirstCaller)
  \/ FirstCallFails(FirstCaller)
  \/ SessionClosed(FirstCaller)

SpecHttp == InitHttp /\ [][NextHttp]_vars

\* The requests of MCP clients at /mcp: authenticated or not, with no session
\* id, a known one or an unknown one.
SessionRequests ==
  { Request("/mcp", m, authHeader, ClientKey, sid, b) :
      m \in {"GET", "POST", "DELETE"},
      authHeader \in {AbsentHeader, Bearer(<<1>>)},
      sid \in 0 .. MaxSessions,
      b \in {"initialize", "tools/list", "not JSON"} }

HandleSessionRequest(p) == HandleRequestFrom(p, SessionRequests)

\* A server with or without MCP_AUTH_TOKEN and no session.
InitSessions == InitHttp /\ KeysLength = 1 /\ kv = "null" /\ env.USER_TOKENS = <<>>

\* The server handling concurrent requests of its clients.
NextSessions ==
  \/ \E p \in Procs : Return(p)
  \/ \E p \in Procs : HandleSessionRequest(p)
  \/ \E p \in Procs : McpPostBody(p)
  \/ \E p \in Procs : SessionInitialized(p)
  \/ \E p \in Procs : TransportResponds(p)
  \/ \E p \in Procs : SessionClosed(p)

SpecSessions == InitSessions /\ [][NextSessions]_vars

\* ---- restart: a fresh process over the same store ------------------------------

\* ApiKeyManager.hashKey: the hash of hashToken, computed over the credential.
hashKey(key) == abs32(hashLoop(key, 1, <<0, 0>>))

\* The store key of a credential's record and of a token's record.
keyStateKey(key) == <<"api_keys", "state", <<"key_", hashKey(key)>>>>
tokenStateKey(token) == <<"tokens", "state", <<"tok_", hashToken(token)>>>>

\* new Date(text) of a text made by toISOString.
parseDate(text) == text[2]

\* The body of the loop of ApiKeyManager.loadStateFromKv: entry is the record
\* kv.get resolved with, Null when the store has none.
loadKeyState(keyState, entry) ==
  IF entry = Null THEN keyState
  ELSE [keyState EXCEPT !.failedAt = entry[1].failedAt,
                        !.retryCount = entry[1].retryCount,
                        !.isDead = entry[1].isDead]

loadStateFromKv(ks, store) == [i \in DOMAIN ks |-> loadKeyState(ks[i], store[i])]

\* The body of the loop of TokenManager.loadStateFromKv.
loadTokenState(info, entry) ==
  IF entry = Null THEN info
  ELSE [info EXCEPT !.lastUsedAt = IF entry[1].lastUsedAt # Null
                                   THEN Some(parseDate(entry[1].lastUsedAt))
                                   ELSE Null,
                    !.usageCount = entry[1].usageCount,
                    !.isActive = entry[1].isActive]

loadTokenStateFromKv(m, store) ==
  [x \in DOMAIN m |-> loadTokenState(m[x], store[hashToken(x)])]

\* The registries of the restart scenarios, as USER_TOKENS: two tokens with
\* different hashes, and two with the same hash (31 * 1 + 2 = 33).
RestartTokens == {<<<<2>>, <<1, 2>>>>, <<<<1, 2>>, <<33>>>>}

\* The credentials as text, for the store keys of their records.
KeyText(k) == <<k>>

RestartEnvs ==
  {[MCP_AUTH_TOKEN |-> <<>>,
    USER_TOKENS |-> [i \in 1 .. 2 |->
                       [token |-> pair[i], userId |-> Null,
                        expiry |-> [kind |-> "never", at |-> 0]]]] :
     pair \in RestartTokens}

\* A Deno process whose store is available, after initialize() of both
\* managers over an empty store.
InitRestart ==
  /\ \E n \in 1 .. MaxKeys : keys = [i \in 0 .. n - 1 |-> KeyState(i + 1)]
  /\ currentIndex = 0
  /\ cooldownMs = 1
  /\ maxRetries = MaxRetriesCfg
  /\ isDeno = TRUE
  /\ kv = "up"
  /\ kvStore = [i \in DOMAIN keys |-> Null]
  /\ now = 0
  /\ pc = [p \in Procs |-> "idle"]
  /\ req = [p \in Procs |-> IdleReq]
  /\ env \in RestartEnvs
  /\ tokens = initialize(env, 0)
  /\ tokenStore = [h \in {hashToken(x) : x \in DOMAIN tokens} |-> Null]
  /\ sessions = {}
  /\ issued = {}
  /\ initialized = TRUE

\* The process ends with no operation pending, and a new process constructs
\* both managers and awaits their initialize(): the records are created from
\* the environment and the persisted state is loaded over them.
Restart ==
  /\ \A q \in Procs : pc[q] = "idle"
  /\ keys' = loadStateFromKv([i \in DOMAIN keys |-> KeyState(keys[i].key)], kvStore)
  /\ currentIndex' = 0
  /\ tokens' = loadTokenStateFromKv(initialize(env, now), tokenStore)
  /\ sessions' = {}
  /\ UNCHANGED issued
  /\ initialized' = TRUE
  /\ UNCHANGED <<config, kvStore, now, pc, req, env, tokenStore>>

NextRestart ==
  \/ Tick
  \/ Return(FirstCaller)
  \/ CallGetActiveKey(FirstCaller)
  \/ CallMarkCurrentKeyFailed(FirstCaller)
  \/ RotateAfterSave(FirstCaller)
  \/ CallResetAllKeys(FirstCaller)
  \/ ResetNext(FirstCaller)
  \/ CallRecordUsage(FirstCaller)
  \/ RecordSaved(FirstCaller)
  \/ CallDisableToken(FirstCaller)
  \/ CallEnableToken(FirstCaller)
  \/ ToggleSaved(FirstCaller)
  \/ Restart

SpecRestart == InitRestart /\ [][NextRestart]_vars

\* ---- ApiKeyManager.initialize, await by await -----------------------------------

\* The locals of a pending initialize(): i of the loop of loadStateFromKv.
InitializeReq == [op |-> "initialize", loadI |-> 0, result |-> NoResult]

\* keyList.map(...): the records of the configured credentials; the store has
\* one slot per configured credential.
freshKeys(store) == [i \in DOMAIN store |-> KeyState(i + 1)]

\* A new process: the manager is constructed and not initialized; on Deno the
\* store may hold records that an earlier process left.
InitInitialize ==
  /\ keys = <<>>
  /\ currentIndex = 0
  /\ cooldownMs = 1
  /\ maxRetries = MaxRetriesCfg
  /\ isDeno \in BOOLEAN
  /\ kv = "null"
  /\ \E n \in 1 .. MaxKeys :
       kvStore \in [0 .. n - 1 ->
                      IF isDeno
                      THEN {Null, Some([failedAt |-> Some(0), retryCount |-> 1, isDead |-> FALSE])}
                      ELSE {Null}]
  /\ now = 0
  /\ pc = [p \in Procs |-> "idle"]
  /\ req = [p \in Procs |-> IdleReq]
  /\ env = [MCP_AUTH_TOKEN |-> <<>>, USER_TOKENS |-> <<>>]
  /\ tokens = <<>>
  /\ tokenStore = <<>>
  /\ sessions = {}
  /\ issued = {}
  /\ initialized = FALSE

\* initialize() up to its first await: the guard, the records, and on Deno the
\* call of Deno.openKv().
CallInitialize(p) ==
  /\ AllTaken
  /\ pc[p] = "idle"
  /\ IF initialized
     THEN /\ Finish(p, InitializeReq, [kind |-> "void"])
          /\ UNCHANGED <<keys, initialized>>
     ELSE /\ keys' = freshKeys(kvStore)
          /\ IF isDeno
             THEN /\ pc' = [pc EXCEPT ![p] = "openKv"]
                  /\ req' = [req EXCEPT ![p] = InitializeReq]
                  /\ UNCHANGED initialized
             ELSE /\ initialized' = TRUE
                  /\ Finish(p, InitializeReq, [kind |-> "void"])
  /\ UNCHANGED <<currentIndex, config, tokenManager, sessions, issued, kvStore, now>>

\* Deno.openKv() resolves: this.kv is set and loadStateFromKv runs up to its
\* first kv.get.
OpenKvResolves(p) ==
  /\ AllTaken
  /\ pc[p] = "openKv"
  /\ kv' = "up"
  /\ IF 0 < KeysLength
     THEN /\ pc' = [pc EXCEPT ![p] = "kvGet"]
          /\ UNCHANGED <<req, initialized>>
     ELSE /\ initialized' = TRUE
          /\ Finish(p, req[p], [kind |-> "void"])
  /\ UNCHANGED <<keys, currentIndex, cooldownMs, maxRetries, isDeno, tokenManager, sessions, issued,
                 kvStore, now>>

\* Deno.openKv() rejects: the catch block, then this.initialized = true.
OpenKvRejects(p) ==
  /\ AllTaken
  /\ pc[p] = "openKv"
  /\ initialized' = TRUE
  /\ Finish(p, req[p], [kind |-> "void"])
  /\ UNCHANGED <<keys, currentIndex, config, tokenManager, sessions, issued, kvStore, now>>

\* kv.get resolves: the record is applied to this.keys[i] and the loop goes on
\* to the next kv.get, or initialize() ends.
KvGetResolves(p) ==
  /\ AllTaken
  /\ pc[p] = "kvGet"
  /\ LET i == req[p].loadI
     IN  /\ keys' = [keys EXCEPT ![i] = loadKeyState(@, kvStore[i])]
         /\ IF i + 1 < KeysLength
            THEN /\ req' = [req EXCEPT ![p].loadI = i + 1]
                 /\ UNCHANGED <<pc, initialized>>
            ELSE /\ initialized' = TRUE
                 /\ Finish(p, req[p], [kind |-> "void"])
  /\ UNCHANGED <<currentIndex, config, tokenManager, sessions, issued, kvStore, now>>

\* Callers that await initialize() before every use of the pool, as
\* makeExaRequest does.
NextInitialize ==
  \/ Tick
  \/ \E p \in Procs : Return(p)
  \/ \E p \in Procs : CallInitialize(p)
  \/ \E p \in Procs : OpenKvResolves(p)
  \/ \E p \in Procs : OpenKvRejects(p)
  \/ \E p \in Procs : KvGetResolves(p)
  \/ \E p \in Procs : initialized /\ CallGetActiveKey(p)
  \/ \E p \in Procs : initialized /\ CallMarkCurrentKeyFailed(p)
  \/ \E p \in Procs : RotateAfterSave(p)

SpecInitialize == InitInitialize /\ [][NextInitialize]_vars

\* ---- TokenManager.getTokensConfig: the expiry field, from the text ---------------

\* The words that mean "never expires"; "infinity sign" is the one-character
\* word U+221E.
NeverWords == {"never", "infinite", "infinity sign", "none", "-"}

\* The text an operator writes after the second colon of a USER_TOKENS entry:
\* nothing at all (the entry ends after the userId), a word in lower or upper
\* case (the empty word included), a date, or a date-time "<date>T<hh>:<mm>:<ss>Z"
\* that names the instant hour + rest.
ExpiryTexts ==
  {[form |-> "omitted", word |-> "", upper |-> FALSE, hour |-> 0, rest |-> 0]}
    \cup {[form |-> "word", word |-> w, upper |-> u, hour |-> 0, rest |-> 0] :
            w \in NeverWords \cup {"", "not-a-date"}, u \in BOOLEAN}
    \cup {[form |-> "date", word |-> "", upper |-> FALSE, hour |-> h, rest |-> 0] :
            h \in 0 .. MaxTime - 1}
    \cup {[form |-> "datetime", word |-> "", upper |-> TRUE, hour |-> h, rest |-> r] :
            h \in 0 .. MaxTime - 1, r \in 0 .. 1}

\* The instant a date or date-time text names.
InstantOf(text) == text.hour + text.rest

\* text.split(':'): the pieces between the colons.  A date-time has two colons
\* of its own: its first piece ends after the hour.
splitColon(text) ==
  CASE text.form = "omitted" -> <<>>
    [] text.form = "datetime" ->
         <<[form |-> "dateHour", word |-> "", upper |-> TRUE, hour |-> text.hour, rest |-> 0],
           [form |-> "digits", word |-> "", upper |-> FALSE, hour |-> 0, rest |-> text.rest],
           [form |-> "digits", word |-> "", upper |-> TRUE, hour |-> 0, rest |-> 0]>>
    [] OTHER -> <<text>>

\* String.prototype.toLowerCase, on an expiry text
expiryToLowerCase(text) == [text EXCEPT !.upper = FALSE]

\* new Date(text).getTime(): NaN for an invalid date.  A date followed by an
\* hour alone is not in the format the language defines; what an engine makes
\* of it is its own choice (lenient: it reads the hour).
getTime(text, lenient) ==
  CASE text.form = "date" -> text.hour
    [] text.form = "dateHour" -> IF lenient THEN text.hour ELSE NaN
    [] OTHER -> NaN

\* const expiryStr = parts[2]?.trim()?.toLowerCase() and the parsing that
\* follows: the expiresAt of the config, and whether an error was logged.
parseExpiryField(parts, lenient) ==
  IF Len(parts) < 3 THEN [expiresAt |-> Null, logged |-> FALSE]
  ELSE LET expiryStr == expiryToLowerCase(parts[3])
       IN  IF expiryStr.form = "word" /\ expiryStr.word = ""
           THEN [expiresAt |-> Null, logged |-> FALSE]
           ELSE IF expiryStr.form = "word" /\ ~expiryStr.upper /\ expiryStr.word \in NeverWords
           THEN [expiresAt |-> Null, logged |-> FALSE]
           ELSE IF getTime(expiryStr, lenient) # NaN
           THEN [expiresAt |-> Some(getTime(expiryStr, lenient)), logged |-> FALSE]
           ELSE [expiresAt |-> Null, logged |-> TRUE]

\* A USER_TOKENS entry as written: token, userId and the expiry text.
TextEntry(token, text) == [token |-> token, userId |-> Null, expiryText |-> text]

\* entry.split(':')
splitEntry(entry) == <<entry.token, entry.userId>> \o splitColon(entry.expiryText)

\* The loop of getTokensConfig over entries as written.
RECURSIVE parseTextEntries(_, _)
parseTextEntries(tokenEntries, lenient) ==
  IF tokenEntries = <<>> THEN [configs |-> <<>>, logged |-> 0]
  ELSE LET parts == splitEntry(Head(tokenEntries))
           rest == parseTextEntries(Tail(tokenEntries), lenient)
           field == parseExpiryField(parts, lenient)
       IN  IF parts[1] = <<>> THEN rest
           ELSE [configs |-> <<[token |-> parts[1], userId |-> parts[2], role |-> "user",
                                expiresAt |-> field.expiresAt]>> \o rest.configs,
                 logged |-> rest.logged + (IF field.logged THEN 1 ELSE 0)]

\* A process that has not yet initialized its TokenManager; USER_TOKENS holds
\* one entry, as written.
InitExpiry ==
  /\ keys = <<>>
  /\ currentIndex = 0
  /\ cooldownMs = 0
  /\ maxRetries = 1
  /\ isDeno \in BOOLEAN
  /\ kv = "null"
  /\ kvStore = <<>>
  /\ now = 0
  /\ pc = [p \in Procs |-> "idle"]
  /\ req = [p \in Procs |-> IdleReq]
  /\ \E text \in ExpiryTexts :
       env = [MCP_AUTH_TOKEN |-> <<>>, USER_TOKENS |-> <<TextEntry(<<1>>, text)>>]
  /\ tokens = <<>>
  /\ tokenStore = <<>>
  /\ sessions = {}
  /\ issued = {}
  /\ initialized = FALSE

\* TokenManager.initialize() at start-up: the configuration is parsed and the
\* records are created.  The result notes how many errors were logged.
InitializeTokens(p) ==
  /\ AllTaken
  /\ pc[p] = "idle"
  /\ ~initialized
  /\ \E lenient \in BOOLEAN :
       LET parsed == parseTextEntries(env.USER_TOKENS, lenient)
       IN  /\ tokens' = setTokens(<<>>, parsed.configs, now)
           /\ Finish(p, TokenReq("initialize", lenient),
                     [kind |-> "void", logged |-> parsed.logged])
  /\ initialized' = TRUE
  /\ UNCHANGED <<pool, env, tokenStore, sessions, issued, now>>

NextExpiry ==
  \/ Tick
  \/ Return(FirstCaller)
  \/ InitializeTokens(FirstCaller)
  \/ initialized /\ CallValidate(FirstCaller)

SpecExpiry == InitExpiry /\ [][NextExpiry]_vars

\* ---- TokenManager.getStats ---------------------------------------------------------

\* tokenInfo.userId || 'anonymous'
userKey(tokenInfo) == IF tokenInfo.userId = Null THEN "anonymous" ELSE tokenInfo.userId

NoStats ==
  [totalUsage |-> 0, activeTokens |-> 0, expiredTokens |-> 0, tokensByUser |-> <<>>]

\* One iteration of the loop of getStats.
countTokenActiveFlagOnly(acc, tokenInfo, t) ==
  LET isExpired == tokenInfo.expiresAt # Null /\ t > tokenInfo.expiresAt[1]
      u == userKey(tokenInfo)
  IN  [totalUsage |-> acc.totalUsage + tokenInfo.usageCount,
       activeTokens |-> acc.activeTokens + (IF tokenInfo.isActive THEN 1 ELSE 0),
       expiredTokens |-> acc.expiredTokens + (IF isExpired THEN 1 ELSE 0),
       tokensByUser |-> [k \in DOMAIN acc.tokensByUser \cup {u} |->
                           IF k = u
                           THEN (IF u \in DOMAIN acc.tokensByUser THEN acc.tokensByUser[u] ELSE 0) + 1
                           ELSE acc.tokensByUser[k]]]

countToken(acc, tokenInfo, t) ==
  LET isExpired == tokenInfo.expiresAt # Null /\ t > tokenInfo.expiresAt[1]
      u == userKey(tokenInfo)
  IN  [totalUsage |-> acc.totalUsage + tokenInfo.usageCount,
       activeTokens |-> acc.activeTokens + (IF ~isExpired /\ tokenInfo.isActive THEN 1 ELSE 0),
       expiredTokens |-> acc.expiredTokens + (IF isExpired THEN 1 ELSE 0),
       tokensByUser |-> [k \in DOMAIN acc.tokensByUser \cup {u} |->
                           IF k = u
                           THEN (IF u \in DOMAIN acc.tokensByUser THEN acc.tokensByUser[u] ELSE 0) + 1
                           ELSE acc.tokensByUser[k]]]

RECURSIVE statsLoop(_, _, _, _)
statsLoop(order, m, t, acc) ==
  IF order = <<>> THEN acc
  ELSE statsLoop(Tail(order), m, t, countToken(acc, m[Head(order)], t))

\* TokenManager.getStats: the object it returns.
getStats(m, e, t) ==
  LET acc == statsLoop(insertionOrder(getTokensConfig(e), {}), m, t, NoStats)
  IN  [totalTokens |-> Cardinality(DOMAIN m),
       activeTokens |-> acc.activeTokens,
       expiredTokens |-> acc.expiredTokens,
       totalUsage |-> acc.totalUsage,
       tokensByUser |-> acc.tokensByUser]

CallGetStats(p) ==
  /\ AllTaken
  /\ pc[p] = "idle"
  /\ Finish(p, TokenReq("getStats", <<>>), [kind |-> "stats", value |-> getStats(tokens, env, now)])
  /\ UNCHANGED <<pool, tokenManager, runtime, now>>

\* An administrator who disables and enables tokens and reads the statistics
\* while the tokens are used and time passes.
NextStats ==
  \/ Tick
  \/ Return(FirstCaller)
  \/ CallRecordUsage(FirstCaller)
  \/ RecordSaved(FirstCaller)
  \/ CallDisableToken(FirstCaller)
  \/ CallEnableToken(FirstCaller)
  \/ ToggleSaved(FirstCaller)
  \/ CallGetStats(FirstCaller)

SpecStats == InitUsage /\ [][NextStats]_vars

\* An administrator who disables and enables tokens while they are validated
\* and used and time passes.
NextToggle ==
  \/ Tick
  \/ Return(FirstCaller)
  \/ CallValidate(FirstCaller)
  \/ CallRecordUsage(FirstCaller)
  \/ RecordSaved(FirstCaller)
  \/ CallDisableToken(FirstCaller)
  \/ CallEnableToken(FirstCaller)
  \/ ToggleSaved(FirstCaller)

SpecToggle == InitUsage /\ [][NextToggle]_vars

\* ---- properties -------------------------------------------------------------

\* Caller p has just got the result of operation o.
Returned(p, o) == pc[p] = "done" /\ req[p].op = o

\* The step clears key i as resetAllKeys does.
ResetsKey(i) ==
  \E p \in Procs : (CallResetAllKeys(p) \/ ResetNext(p)) /\ req'[p].resetI = i /\ pc'[p] = "resetting"

\* C1: once maxRetries failures are recorded on a credential it is dead, it
\* stays so whatever time passes unless resetAllKeys clears it, and no
\* getActiveKey call returns it.
C1_DeadNeverActive ==
  /\ [](\A i \in DOMAIN keys : keys[i].retryCount >= maxRetries => keys[i].isDead)
  /\ [][\A i \in DOMAIN keys :
          (keys[i].retryCount >= maxRetries /\ ~ResetsKey(i))
            => (keys'[i].isDead /\ keys'[i].retryCount >= maxRetries)]_vars
  /\ [][\A p \in Procs : CallGetActiveKey(p) =>
          \A i \in DOMAIN keys :
            keys[i].retryCount >= maxRetries => req'[p].result.key # keys[i].key]_vars

\* A getActiveKey call has returned while a credential that died earlier is
\* past its cooldown window.
C1_Witness ==
  \E p \in Procs : \E i \in DOMAIN keys :
    /\ Returned(p, "getActiveKey")
    /\ keys[i].isDead /\ keys[i].retryCount >= maxRetries
    /\ cooldownMs > 0
    /\ now - keys[i].failedAt[1] >= cooldownMs

\* An upstream outcome that is a quota-class failure: status 402 or 429, or
\* 403 with a balance keyword in the error body.
QuotaClass(u) ==
  /\ u.kind = "http"
  /\ \/ u.status \in {402, 429}
     \/ u.status = 403 /\ u.body = "Quota exceeded"

RECURSIVE SumRetries(_, _)
SumRetries(ks, S) ==
  IF S = {} THEN 0
  ELSE LET i == CHOOSE j \in S : TRUE IN ks[i].retryCount + SumRetries(ks, S \ {i})

\* Number of failures recorded in the pool.
TotalRetries == SumRetries(keys, DOMAIN keys)

Pristine(keyState) ==
  keyState.failedAt = Null /\ keyState.retryCount = 0 /\ ~keyState.isDead

\* C2: within one makeExaRequest on a pool key, a quota-class failure of the
\* first call leads to exactly one markCurrentKeyFailed call, the retry is
\* issued only after that rotation returned true, and there are never more
\* than two outbound calls.
C2_OneMarkThenRetry ==
  \A p \in Procs :
    /\ req[p].calls <= 2
    /\ req[p].marks <= 1
    /\ (pc[p] = "call2" \/ req[p].calls = 2) => (req[p].marks = 1 /\ req[p].rotated)
    /\ (req[p].managed /\ QuotaClass(req[p].cause)) => req[p].marks = 1

\* The part of C2 that does not depend on the classification: the retry only
\* follows a rotation that returned true, and there are at most two calls.
C2_RetryOnlyAfterRotation ==
  \A p \in Procs :
    /\ req[p].calls <= 2
    /\ req[p].marks <= 1
    /\ (pc[p] = "call2" \/ req[p].calls = 2) => (req[p].marks = 1 /\ req[p].rotated)

\* C3: the outcome of the retry is the request's outcome as it is, and it
\* changes no credential; with maxRetries = 1, when the first key failed with
\* the only recorded failure and the retry succeeded, the caller has the data,
\* the first key is dead and the retry's key has no failure recorded.
C3_RetryOutcomeVerbatim ==
  /\ [][\A p \in Procs :
          (pc[p] = "call2" /\ pc'[p] # "call2") =>
            /\ keys' = keys /\ currentIndex' = currentIndex /\ kvStore' = kvStore
            /\ pc'[p] = "done"
            /\ \E u \in Upstream :
                 req'[p].result = IF executeRequest(u).ok
                                  THEN [kind |-> "data"]
                                  ELSE [kind |-> "error", error |-> executeRequest(u).error]]_vars
  /\ [](\A p \in Procs :
          ( /\ Returned(p, "makeExaRequest") /\ req[p].calls = 2
            /\ req[p].result.kind = "data"
            /\ maxRetries = 1 /\ TotalRetries = 1 )
          => /\ req[p].newKey # req[p].apiKey
             /\ keys[req[p].apiKey - 1].isDead
             /\ Pristine(keys[req[p].newKey - 1]))

\* Pool [K1, K2], maxRetries = 1: K1 failed with a quota error, the retry on
\* K2 succeeded.
C3_Witness ==
  \E p \in Procs :
    /\ Returned(p, "makeExaRequest") /\ req[p].result.kind = "data"
    /\ KeysLength = 2 /\ maxRetries = 1
    /\ req[p].apiKey = 1 /\ req[p].newKey = 2 /\ req[p].calls = 2
    /\ keys[0].isDead /\ Pristine(keys[1])

\* C4 as stated: whenever makeExaRequest finds no pool credential, before the
\* first call or after a failed rotation, it fails with the pool-exhausted
\* error that carries the status snapshot.
C4_ExhaustedErrorOnBothPaths ==
  \A p \in Procs :
    ( /\ Returned(p, "makeExaRequest") /\ req[p].managed
      /\ \/ req[p].calls = 0
         \/ req[p].calls = 1 /\ req[p].marks = 1 )
    => /\ req[p].result.kind = "allKeysExhausted"
       /\ req[p].result.status = getStatus(keys, now)

\* C4 amended: after a quota-class failure whose rotation found no credential
\* the request fails with the pool-exhausted error and its status snapshot;
\* when getActiveKey returns null before the first call it fails with the
\* plain no-key error, which carries no snapshot.
C4_ExhaustedErrorAfterRotation ==
  \A p \in Procs :
    /\ ( /\ Returned(p, "makeExaRequest") /\ req[p].calls = 1 /\ req[p].marks = 1 )
       => /\ req[p].result.kind = "allKeysExhausted"
          /\ req[p].result.status.total = KeysLength
          /\ req[p].result.status.dead = Cardinality({i \in DOMAIN keys : keys[i].isDead})
          /\ req[p].result.status.total
               = req[p].result.status.active + req[p].result.status.cooldown
                 + req[p].result.status.dead
          /\ req[p].result.status.dead >= 0 /\ req[p].result.status.cooldown >= 0
          /\ req[p].rotated => req[p].result.status.active = 0
    /\ ( /\ Returned(p, "makeExaRequest") /\ req[p].managed /\ req[p].calls = 0 )
       => /\ req[p].result = [kind |-> "noKeyAvailable"]
          /\ \A i \in DOMAIN keys : ~isKeyAvailable(keys[i], now)

\* A rotation returned false and the request ended with the exhausted error.
C4_Witness ==
  \E p \in Procs :
    /\ Returned(p, "makeExaRequest") /\ req[p].marks = 1 /\ ~req[p].rotated
    /\ req[p].result.kind = "allKeysExhausted"
    /\ KeysLength = 2

\* C5: a failure that is not quota-class, and any failure on an override key,
\* ends the request with that error: no markCurrentKeyFailed, no retry, and
\* the pool (failedAt, retryCount, dead flags, cursor) is unchanged.
C5_OtherFailuresPropagate ==
  /\ [](\A p \in Procs :
          /\ ~req[p].managed => (req[p].marks = 0 /\ req[p].calls <= 1)
          /\ (req[p].cause # NoCause /\ (~QuotaClass(req[p].cause) \/ ~req[p].managed))
             => /\ pc[p] = "done" /\ req[p].marks = 0 /\ req[p].calls = 1
                /\ req[p].result = [kind |-> "error", error |-> executeRequest(req[p].cause).error])
  /\ [][\A p \in Procs :
          (pc[p] = "call1" /\ pc'[p] = "done") =>
            (keys' = keys /\ currentIndex' = currentIndex /\ kvStore' = kvStore)]_vars

\* A timeout on a pool key (axios path) has been rethrown.
C5_Witness ==
  \E p \in Procs :
    /\ Returned(p, "makeExaRequest") /\ req[p].managed /\ ~isDeno
    /\ req[p].cause.kind = "timeout" /\ req[p].result.kind = "error"
    /\ TotalRetries > 0

\* C6: on a pool key a failed first call triggers markCurrentKeyFailed exactly
\* when the upstream outcome is quota-class, on the fetch path as on the
\* axios path.
C6_SameClassificationOnBothPaths ==
  \A p \in Procs :
    (req[p].managed /\ req[p].cause # NoCause)
      => ((req[p].marks = 1) <=> QuotaClass(req[p].cause))

\* C10: a markCurrentKeyFailed call made for a failed request changes the
\* health state of the credential that request used, and of no other.
C10_MarkHitsTheFailedKey ==
  \A p \in Procs :
    (pc[p] = "saving" /\ req[p].op = "makeExaRequest")
      => keys[req[p].markIdx].key = req[p].apiKey

\* Credential i is available: not dead, and never failed or past its cooldown.
Available(i) ==
  /\ ~keys[i].isDead
  /\ keys[i].failedAt = Null \/ now - keys[i].failedAt[1] >= cooldownMs

\* Credential i is in cooldown (failed, not dead, under a cooldown period that
\* is not zero) and its cooldown has elapsed.
Recovered(i) ==
  /\ cooldownMs > 0
  /\ ~keys[i].isDead
  /\ keys[i].failedAt # Null
  /\ now - keys[i].failedAt[1] >= cooldownMs

\* Distance of index i from the cursor in round-robin order.
Offset(i) == (i - currentIndex + KeysLength) % KeysLength

\* Credential i is the first available one in round-robin order from the cursor.
FirstAvailable(i) ==
  Available(i) /\ \A j \in DOMAIN keys : Offset(j) < Offset(i) => ~Available(j)

\* C7 as stated: every credential in cooldown whose cooldown has elapsed is
\* returned by the next getActiveKey call, which clears its failedAt and
\* leaves its retryCount.
C7_EveryRecoveredKeyReturned ==
  [][\A p \in Procs : CallGetActiveKey(p) =>
       \A i \in DOMAIN keys :
         Recovered(i) => /\ req'[p].result.key = keys[i].key
                         /\ keys'[i].failedAt = Null
                         /\ keys'[i].retryCount = keys[i].retryCount]_vars

\* C7 amended: a credential whose cooldown has elapsed is returned by the next
\* getActiveKey call, with its failedAt cleared, when it is the first available
\* credential in round-robin order from the cursor; the call changes no
\* retryCount and no other credential.
C7_FirstRecoveredKeyReturned ==
  [][\A p \in Procs : CallGetActiveKey(p) =>
       /\ \A i \in DOMAIN keys :
            (Recovered(i) /\ FirstAvailable(i))
              => /\ req'[p].result.key = keys[i].key
                 /\ keys'[i] = [keys[i] EXCEPT !.failedAt = Null]
                 /\ \A j \in DOMAIN keys \ {i} : keys'[j] = keys[j]
       /\ \A i \in DOMAIN keys : keys'[i].retryCount = keys[i].retryCount]_vars

\* getActiveKey has returned a credential that had failed before and whose
\* failedAt it cleared.
C7_Witness ==
  \E p \in Procs :
    /\ Returned(p, "getActiveKey")
    /\ req[p].result.key # NoKey
    /\ keys[req[p].result.key - 1].retryCount > 0
    /\ keys[req[p].result.key - 1].failedAt = Null
    /\ cooldownMs > 0

\* C8 as stated: the cursor after getActiveKey equals the cursor before it.
C8_GetActiveKeyKeepsCursor ==
  \A p \in Procs : Returned(p, "getActiveKey") => currentIndex = req[p].startIndex

\* C8 amended: getActiveKey leaves the cursor where it is when the credential
\* at the cursor is available or when none is available; otherwise it moves
\* the cursor to the credential it returns.  Only getActiveKey, rotation and
\* resetAllKeys change the cursor.
C8_CursorFollowsReturnedKey ==
  /\ [](\A p \in Procs : Returned(p, "getActiveKey") =>
          /\ req[p].result.key = NoKey => currentIndex = req[p].startIndex
          /\ req[p].result.key # NoKey =>
               /\ keys[currentIndex].key = req[p].result.key
               /\ \A j \in DOMAIN keys :
                    ( /\ (j - req[p].startIndex + KeysLength) % KeysLength
                           < (currentIndex - req[p].startIndex + KeysLength) % KeysLength )
                    => ~Available(j))
  /\ [][currentIndex' # currentIndex =>
          \E p \in Procs : \/ CallGetActiveKey(p)
                           \/ RotateAfterSave(p)
                           \/ CallRotateToNextKey(p)
                           \/ CallResetAllKeys(p)
                           \/ ResetNext(p)]_vars

\* getActiveKey has returned a credential and left the cursor on another
\* index than the one it started from.
C8_Witness ==
  \E p \in Procs :
    /\ Returned(p, "getActiveKey")
    /\ req[p].result.key # NoKey
    /\ currentIndex # req[p].startIndex

\* No failed credential's cooldown has elapsed.
NoCooldownElapsed ==
  \A i \in DOMAIN keys :
    keys[i].failedAt # Null => now - keys[i].failedAt[1] < cooldownMs

\* C9: from N healthy credentials with the cursor at 0 and no cooldown
\* elapsing, the k-th consecutive markCurrentKeyFailed call (k <= N) marks
\* credential k-1; the calls before the N-th return true and leave the cursor
\* on the next credential, the N-th returns false.
C9_RoundRobin ==
  LET k == TotalRetries
      N == KeysLength
  IN  (N >= 1 /\ kv # "down" /\ k <= N /\ NoCooldownElapsed) =>
        /\ \A i \in DOMAIN keys : keys[i].retryCount = IF i < k THEN 1 ELSE 0
        /\ pc[FirstCaller] = "saving" =>
             (req[FirstCaller].markIdx = k - 1 /\ currentIndex = k - 1)
        /\ pc[FirstCaller] \in {"idle", "done"} =>
             currentIndex = IF k < N THEN k ELSE N - 1
        /\ Returned(FirstCaller, "markCurrentKeyFailed") =>
             req[FirstCaller].result = [kind |-> "bool", value |-> k < N]

\* The N-th call on a pool of N >= 2 credentials has returned false.
C9_Witness ==
  /\ Returned(FirstCaller, "markCurrentKeyFailed")
  /\ req[FirstCaller].result = [kind |-> "bool", value |-> FALSE]
  /\ KeysLength >= 2 /\ TotalRetries = KeysLength
  /\ \A i \in DOMAIN keys : keys[i].retryCount = 1
  /\ NoCooldownElapsed /\ cooldownMs > 0 /\ maxRetries > 1

\* C11 as stated: after any sequence of pool operations the pool holds the
\* credentials it was initialized with, in the same order, and the cursor is
\* an index of the pool (for an empty pool, which has no index: the cursor is
\* still a number that is not negative).
C11_CursorValidPoolFixed ==
  /\ DOMAIN keys = 0 .. KeysLength - 1
  /\ \A i \in DOMAIN keys : keys[i].key = i + 1
  /\ currentIndex >= 0
  /\ KeysLength > 0 => currentIndex < KeysLength

\* The part of C11 that holds: a pool that is not empty keeps its credentials
\* and its cursor stays one of its indexes.
C11_NonEmptyPoolCursorValid ==
  /\ \A i \in DOMAIN keys : keys[i].key = i + 1
  /\ KeysLength > 0 => currentIndex \in DOMAIN keys

InCooldown(i) ==
  keys[i].failedAt # Null /\ now - keys[i].failedAt[1] < cooldownMs

\* C13: getStatus puts every credential in exactly one of active, cooldown,
\* dead: total = active + cooldown + dead, dead counts the dead credentials,
\* cooldown those not dead and in cooldown, active those not dead and not in
\* cooldown.
C13_StatusPartition ==
  \A p \in Procs : Returned(p, "getStatus") =>
    LET s == req[p].result.status
    IN  /\ s.total = KeysLength
        /\ s.total = s.active + s.cooldown + s.dead
        /\ s.dead = Cardinality({i \in DOMAIN keys : keys[i].isDead})
        /\ s.cooldown = Cardinality({i \in DOMAIN keys : ~keys[i].isDead /\ InCooldown(i)})
        /\ s.active = Cardinality({i \in DOMAIN keys : ~keys[i].isDead /\ ~InCooldown(i)})

\* getStatus has reported one dead credential, whose last failure is still
\* within the cooldown period, next to one credential in cooldown.
C13_Witness ==
  \E p \in Procs :
    /\ Returned(p, "getStatus")
    /\ req[p].result.status = [total |-> 2, active |-> 0, cooldown |-> 1, dead |-> 1]
    /\ \E i \in DOMAIN keys : keys[i].isDead /\ InCooldown(i)

\* The record saveStateToKv writes for a cleared credential.
ClearedRecord == Some([failedAt |-> Null, retryCount |-> 0, isDead |-> FALSE])

Presented(p) ==
  IF req[p].op = "validate" THEN req[p].arg
  ELSE IF req[p].arg.scheme \in {"Bearer", "bearer"} THEN req[p].arg.value
  ELSE <<>>

Validated(p) == Returned(p, "validate") \/ Returned(p, "validateAuthHeader")

\* C15 as stated: validation never raises, it always returns a validation
\* result, and with an empty registry that result is valid and carries no
\* token, for validate as for validateAuthHeader.
C15_TotalAndPassthroughWhenEmpty ==
  \A p \in Procs : Validated(p) =>
    /\ req[p].result.kind = "validation"
    /\ DOMAIN tokens = {} =>
         (req[p].result.value.valid /\ req[p].result.value.token = Null)

\* The part of C15 that holds: validation always returns a result, and
\* validateAuthHeader returns valid without a token when the registry is empty.
C15_AuthHeaderPassthroughWhenEmpty ==
  \A p \in Procs : Validated(p) =>
    /\ req[p].result.kind = "validation"
    /\ (DOMAIN tokens = {} /\ req[p].op = "validateAuthHeader") =>
         req[p].result.value = Result(TRUE, "No auth configured", Null)

\* C16: with a registry that is not empty, a presented token that equals no
\* stored token is NotFound; a matching token that is disabled is Disabled,
\* also when it is expired; an active token past its expiry is Expired; an
\* active token without expiry or before it is Valid.
C16_NotFoundDisabledExpiredValid ==
  \A p \in Procs :
    (Validated(p) /\ DOMAIN tokens # {} /\ Presented(p) # <<>>) =>
      LET x == Presented(p)
          res == req[p].result.value
      IN  IF x \notin DOMAIN tokens
          THEN res = Result(FALSE, "Token not found", Null)
          ELSE /\ ~tokens[x].isActive => res = Result(FALSE, "Token is disabled", Some(tokens[x]))
               /\ ( /\ tokens[x].isActive
                    /\ tokens[x].expiresAt # Null
                    /\ tokens[x].expiresAt[1] < now )
                  => res = Result(FALSE, "Token has expired", Some(tokens[x]))
               /\ ( /\ tokens[x].isActive
                    /\ tokens[x].expiresAt = Null \/ now < tokens[x].expiresAt[1] )
                  => res = Result(TRUE, "", Some(tokens[x]))

\* A token that is both disabled and expired was presented in a header and
\* reported as disabled.
C16_Witness ==
  \E p \in Procs :
    /\ Returned(p, "validateAuthHeader")
    /\ Presented(p) \in DOMAIN tokens
    /\ ~tokens[Presented(p)].isActive
    /\ tokens[Presented(p)].expiresAt # Null
    /\ tokens[Presented(p)].expiresAt[1] < now
    /\ req[p].result.value.reason = "Token is disabled"

\* C17 as stated: an active token with an expiry is valid exactly while
\* now < expiresAt; at expiresAt = now it is rejected as expired.
C17_ExpiryInclusive ==
  \A p \in Procs :
    ( /\ Validated(p) /\ Presented(p) \in DOMAIN tokens /\ Presented(p) # <<>>
      /\ tokens[Presented(p)].isActive /\ tokens[Presented(p)].expiresAt # Null ) =>
      /\ req[p].result.value.valid <=> now < tokens[Presented(p)].expiresAt[1]
      /\ ~req[p].result.value.valid => req[p].result.value.reason = "Token has expired"

\* C17 amended: an active token with an expiry is rejected as expired exactly
\* when now > expiresAt; at expiresAt = now it is still valid.
C17_ExpiryExclusive ==
  \A p \in Procs :
    ( /\ Validated(p) /\ Presented(p) \in DOMAIN tokens /\ Presented(p) # <<>>
      /\ tokens[Presented(p)].isActive /\ tokens[Presented(p)].expiresAt # Null ) =>
      /\ req[p].result.value.valid <=> now <= tokens[Presented(p)].expiresAt[1]
      /\ ~req[p].result.value.valid => req[p].result.value.reason = "Token has expired"

\* An active token was validated at the very instant of its expiry.
C17_Witness ==
  \E p \in Procs :
    /\ Validated(p) /\ Presented(p) \in DOMAIN tokens /\ Presented(p) # <<>>
    /\ tokens[Presented(p)].isActive
    /\ tokens[Presented(p)].expiresAt = Some(now)
    /\ req[p].result.value.valid

\* The registered token a recordUsage call is for, "" when it matches none.
UsageTarget(r) ==
  LET x == IF r.op = "recordUsage" THEN r.arg
           ELSE IF r.arg.scheme \in {"Bearer", "bearer"} THEN r.arg.value
           ELSE <<>>
  IN  IF x \in DOMAIN tokens THEN x ELSE <<>>

\* The recordUsage calls for token x that have updated the record and are
\* still waiting for the store.
Recording(x) == {p \in Procs : pc[p] = "recording" /\ UsageTarget(req[p]) = x}

\* C18: every recordUsage call for a registered token adds exactly one to its
\* usageCount and sets its lastUsedAt to the time of the call, however the
\* calls interleave, and changes no other record; a call for a value that
\* matches no token changes nothing and returns; no other step of a call
\* changes a record.
C18_UsageCountsEveryCall ==
  /\ [][\A p \in Procs :
          (CallRecordUsage(p) \/ CallRecordUsageFromAuthHeader(p)) =>
            LET x == UsageTarget(req'[p])
            IN  IF x = <<>>
                THEN tokens' = tokens /\ tokenStore' = tokenStore
                     /\ pc'[p] = "done" /\ req'[p].result = [kind |-> "void"]
                ELSE tokens' = [tokens EXCEPT ![x].usageCount = @ + 1,
                                              ![x].lastUsedAt = Some(now)]]_vars
  /\ [][\A p \in Procs : (RecordSaved(p) \/ Return(p)) => tokens' = tokens]_vars
  /\ [](\A x \in DOMAIN tokens :
          /\ tokens[x].usageCount >= Cardinality(Recording(x))
          /\ tokens[x].usageCount = 0 <=> tokens[x].lastUsedAt = Null
          /\ tokens[x].lastUsedAt # Null => tokens[x].lastUsedAt[1] <= now)

\* Two recordUsage calls for the same token overlap, the later one made at a
\* later time: the count is 2 and lastUsedAt is the later time.
C18_Witness ==
  \E x \in DOMAIN tokens :
    /\ Cardinality(Recording(x)) = 2
    /\ tokens[x].usageCount = 2
    /\ now > 0
    /\ tokens[x].lastUsedAt = Some(now)

\* USER_TOKENS has an entry with a token, that is, one that yields a record.
AnyUserRecord ==
  \E i \in 1 .. Len(env.USER_TOKENS) : env.USER_TOKENS[i].token # <<>>

C20_EveryConfiguredTokenAuthenticates ==
  \A p \in Procs :
    ( /\ Returned(p, "handleRequest")
      /\ env.MCP_AUTH_TOKEN # <<>> /\ AnyUserRecord
      /\ req[p].arg.scheme = "Bearer"
      /\ \/ req[p].arg.value = env.MCP_AUTH_TOKEN
         \/ \E i \in 1 .. Len(env.USER_TOKENS) :
              /\ env.USER_TOKENS[i].token = req[p].arg.value
              /\ env.USER_TOKENS[i].token # <<>>
              /\ env.USER_TOKENS[i].expiry.kind = "never" )
    => req[p].result.value.handled

\* The part of C20 that holds: with MCP_AUTH_TOKEN configured, /mcp accepts
\* exactly the requests that present MCP_AUTH_TOKEN as bearer token.
C20_OnlyLegacyTokenAuthenticates ==
  \A p \in Procs :
    (Returned(p, "handleRequest") /\ env.MCP_AUTH_TOKEN # <<>>) =>
      (req[p].result.value.handled
         <=> (req[p].arg.scheme \in {"Bearer", "bearer"}
              /\ req[p].arg.value = env.MCP_AUTH_TOKEN))

\* ---- properties of the HTTP endpoints ------------------------------------------

\* What the registry says about the Authorization header of caller p's request.
Verdict(p) == validateAuthHeader(tokens, req[p].arg, now)

\* C21 as stated: GET /admin/tokens answers a request that carries a valid
\* user-role token with 403, a request without a header or with an unknown
\* token with 401, and admits a request that carries a valid admin-role token.
C21_AdminEndpointRoleGate ==
  \A p \in Procs :
    (Returned(p, "adminTokens") /\ hasTokens(tokens)) =>
      LET v == Verdict(p)
          status == req[p].result.value.status
      IN  /\ (v.valid /\ v.token[1].role = "user") => status = 403
          /\ v.reason \in {"No Authorization header", "Token not found"} => status = 401
          /\ (v.valid /\ v.token[1].role = "admin") => status = 200

\* What the code does: no route serves /admin/tokens, whatever the credential.
C21_AdminEndpointNotFound ==
  \A p \in Procs : Returned(p, "adminTokens") => req[p].result.value = Response(404)

\* The bearer token of caller p's request, "" when its header carries none.
BearerToken(p) ==
  IF matchBearer(req[p].arg) = Null THEN <<>> ELSE matchBearer(req[p].arg)[1]

\* C22 as stated: where the /mcp endpoint authenticates its requests, a
\* request without Authorization header, with a malformed one or with a token
\* that is not configured is answered with 401, and a request whose token is
\* registered but disabled or expired is answered with 403.
C22_RejectionTellsItsCause ==
  \A p \in Procs :
    (Returned(p, "handleRequest") /\ isPoolMode(env)) =>
      LET x == BearerToken(p)
          status == req[p].result.value.status
      IN  /\ (x = <<>> \/ (x \notin DOMAIN tokens /\ x # env.MCP_AUTH_TOKEN)) => status = 401
          /\ ( /\ x \in DOMAIN tokens /\ x # env.MCP_AUTH_TOKEN
               /\ \/ ~tokens[x].isActive
                  \/ tokens[x].expiresAt # Null /\ now > tokens[x].expiresAt[1] )
             => status = 403

\* What the code does: handleRequest itself never answers 403, and every
\* rejection of a bearer token is the same 401.
C22_RejectionsAreAll401 ==
  \A p \in Procs :
    (Returned(p, "handleRequest") \/ Returned(p, "adminTokens")) =>
      /\ req[p].result.value.status # 403
      /\ (isPoolMode(env) /\ ~validateAuthToken(env, req[p].arg) /\ req[p].op = "handleRequest")
           => req[p].result.value = Response(401)

\* C23 as stated: isAuthRequired(), isPoolMode() and TokenManager.hasTokens()
\* agree, and hold exactly when MCP_AUTH_TOKEN or USER_TOKENS configures a token.
C23_ModeFollowsRegistry ==
  /\ isAuthRequired(env) = hasTokens(tokens)
  /\ isPoolMode(env) = hasTokens(tokens)
  /\ hasTokens(tokens) <=> (env.MCP_AUTH_TOKEN # <<>> \/ AnyUserRecord)

\* What holds: isAuthRequired and isPoolMode follow MCP_AUTH_TOKEN alone, and
\* hasTokens follows the registry.
C23_ModeFollowsLegacyToken ==
  /\ isAuthRequired(env) <=> env.MCP_AUTH_TOKEN # <<>>
  /\ isPoolMode(env) <=> env.MCP_AUTH_TOKEN # <<>>
  /\ hasTokens(tokens) <=> (env.MCP_AUTH_TOKEN # <<>> \/ AnyUserRecord)

\* C26 as stated: every entry of listTokens() shows, before the "..." mark,
\* only a proper prefix of its token.
C26_ListShowsProperPrefix ==
  \A p \in Procs : Returned(p, "listTokens") =>
    LET list == req[p].result.value
        order == insertionOrder(getTokensConfig(env), {})
    IN  \A i \in DOMAIN list :
          LET shown == SubSeq(list[i].tokenPrefix, 1, Len(list[i].tokenPrefix) - Len(Ellipsis))
          IN  /\ Len(shown) < Len(order[i])
              /\ shown = SubSeq(order[i], 1, Len(shown))

\* What holds: the part shown is a prefix of the token of at most 8 characters.
C26_ListShowsPrefix ==
  \A p \in Procs : Returned(p, "listTokens") =>
    LET list == req[p].result.value
        order == insertionOrder(getTokensConfig(env), {})
    IN  /\ Len(list) = Cardinality(DOMAIN tokens)
        /\ \A i \in DOMAIN list :
             LET shown == SubSeq(list[i].tokenPrefix, 1, Len(list[i].tokenPrefix) - Len(Ellipsis))
             IN  /\ Len(shown) <= PrefixLength
                 /\ shown = SubSeq(order[i], 1, Len(shown))

\* Caller p's request has been passed to an MCP handler.
InSessionHandling(p) ==
  /\ req[p].op = "http"
  /\ \/ pc[p] \in {"handleMcpPost", "connecting", "transport", "closing", "call1", "call2"}
     \/ pc[p] = "done" /\ handleRequest(env, req[p].request).handled

\* Caller p's request has an outbound call to the upstream API in flight.
CallingUpstream(p) == req[p].op = "http" /\ pc[p] \in {"call1", "call2"}

\* C24 as stated: in passthrough mode (no inbound token configured) every
\* outbound call made for a request uses the key the client supplied and none
\* of the pool, and a request to the MCP endpoint without a client key is
\* answered with 401.
C24_PassthroughUsesClientKey ==
  \A p \in Procs :
    (req[p].op = "http" /\ ~isPoolMode(env) /\ ~hasTokens(tokens)) =>
      /\ CallingUpstream(p) =>
           /\ req[p].apiKey = req[p].request.clientKey
           /\ \A i \in DOMAIN keys : req[p].apiKey # keys[i].key
      /\ (InSessionHandling(p) \/ pc[p] = "done") =>
           (~handleRequest(env, req[p].request).handled
              \/ req[p].request.clientKey # NoKey)

\* What the code does: a passthrough request is admitted only with a client
\* key, and every outbound call of the server uses the credential at the
\* cursor of the pool, whatever key the client supplied.
C24_ServerUsesPoolKey ==
  \A p \in Procs :
    req[p].op = "http" =>
      /\ CallingUpstream(p) =>
           /\ req[p].managed
           /\ req[p].apiKey = keys[currentIndex].key
      /\ (InSessionHandling(p) /\ ~isPoolMode(env)) => req[p].request.clientKey # NoKey
      /\ ( /\ pc[p] = "done" /\ ~isPoolMode(env)
           /\ req[p].request.pathname \in {"/mcp", "/"}
           /\ ~(req[p].request.pathname = "/" /\ req[p].request.method = "GET")
           /\ req[p].request.clientKey = NoKey )
         => req[p].result.value = Response(401)

\* The Authorization header of caller p's request carries a configured token
\* that is valid: MCP_AUTH_TOKEN, or a registered token that validates.
ValidBearer(p) ==
  LET x == IF matchBearer(req[p].request.authHeader) = Null THEN <<>>
           ELSE matchBearer(req[p].request.authHeader)[1]
  IN  /\ x # <<>>
      /\ \/ x = env.MCP_AUTH_TOKEN
         \/ validate(tokens, x, now).valid

\* C25 as stated: in pool mode (some inbound token is configured) a request
\* reaches the MCP handlers only with a valid bearer token; a request to the
\* MCP endpoint without one is answered with 401; and the session map changes
\* only in the handling of a request with a valid bearer token.
C25_NoSessionHandlingWithoutToken ==
  /\ [](\A p \in Procs :
           (req[p].op = "http" /\ hasTokens(tokens) /\ ~ValidBearer(p)) =>
             /\ ~InSessionHandling(p)
             /\ ( /\ pc[p] = "done"
                  /\ req[p].request.pathname \in {"/mcp", "/"}
                  /\ ~(req[p].request.pathname = "/" /\ req[p].request.method = "GET") )
                => req[p].result.value = Response(401))
  /\ [][(hasTokens(tokens) /\ sessions' # sessions) =>
          \E p \in Procs : InSessionHandling(p) /\ ValidBearer(p)]_vars

\* What holds: where MCP_AUTH_TOKEN is set, a request reaches the MCP handlers
\* only with MCP_AUTH_TOKEN as bearer token, any other request to the MCP
\* endpoint is answered with 401, and the session map changes only in the
\* handling of a request that carried it.
C25_GateWhereLegacyTokenSet ==
  /\ [](\A p \in Procs :
           ( /\ req[p].op = "http" /\ isPoolMode(env)
             /\ matchBearer(req[p].request.authHeader) # Some(env.MCP_AUTH_TOKEN) ) =>
             /\ ~InSessionHandling(p)
             /\ ( /\ pc[p] = "done"
                  /\ req[p].request.pathname \in {"/mcp", "/"}
                  /\ ~(req[p].request.pathname = "/" /\ req[p].request.method = "GET") )
                => req[p].result.value = Response(401))
  /\ [][(isPoolMode(env) /\ sessions' # sessions) =>
          \E p \in Procs :
            /\ InSessionHandling(p)
            /\ matchBearer(req[p].request.authHeader) = Some(env.MCP_AUTH_TOKEN)]_vars

\* ---- properties of persistence ---------------------------------------------------

\* C27 as stated: a store write that fails never fails the operation that
\* issued it: markCurrentKeyFailed returns its boolean after marking the key
\* and rotating, and resetAllKeys returns after clearing every key.
C27_StoreFailureNeverFails ==
  /\ [](\A p \in Procs : pc[p] = "done" => req[p].result.kind # "storeError")
  /\ [][\A p \in Procs :
          (pc[p] = "saving" /\ pc'[p] = "done")
            => /\ req'[p].result.kind = "bool"
               /\ currentIndex' = rotateToNextKey(keys, currentIndex, now).currentIndex]_vars
  /\ [](\A p \in Procs :
           Returned(p, "resetAllKeys") /\ ~req[p].disturbed
             => \A i \in DOMAIN keys : Pristine(keys[i]))

\* What the code does: an operation rejects with the store's error exactly
\* when the write it awaited failed; markCurrentKeyFailed has then marked the
\* key but not rotated, and resetAllKeys has cleared the keys up to that one.
C27_StoreFailureRejects ==
  /\ [](\A p \in Procs :
           pc[p] = "done" => (req[p].result.kind = "storeError" <=> ~req[p].saveOk))
  /\ [](\A p \in Procs : req[p].saveOk \/ kv = "down")
  /\ [][\A p \in Procs :
          SaveFailed(p) => /\ currentIndex' = currentIndex
                           /\ keys' = keys
                           /\ req[p].marks = 1]_vars
  /\ [][\A p \in Procs :
          ResetFailed(p) => /\ keys' = keys /\ currentIndex' = currentIndex
                            /\ req[p].resetI < KeysLength]_vars

\* The state of credential i that a restart has to bring back: the state in
\* memory, where a failure stamp whose cooldown had passed may have been
\* cleared in memory by getActiveKey, which persists nothing.
KeyStateRestored(i) ==
  /\ keys'[i].retryCount = keys[i].retryCount
  /\ keys'[i].isDead = keys[i].isDead
  /\ \/ keys'[i].failedAt = keys[i].failedAt
     \/ /\ keys[i].failedAt = Null
        /\ keys'[i].failedAt # Null
        /\ now - keys'[i].failedAt[1] >= cooldownMs

TokenStateRestored(x) ==
  /\ tokens'[x].lastUsedAt = tokens[x].lastUsedAt
  /\ tokens'[x].usageCount = tokens[x].usageCount
  /\ tokens'[x].isActive = tokens[x].isActive

\* C28 as stated: with the store available and every write completed, a fresh
\* manager that initializes over the same store has, for every credential, the
\* failure stamp, retry count and dead flag, and for every token the last-used
\* time, usage count and active flag, that were in memory after the last
\* persisted mutation.
C28_RestartRestoresState ==
  [][Restart => /\ \A i \in DOMAIN keys : KeyStateRestored(i)
                /\ \A x \in DOMAIN tokens : TokenStateRestored(x)]_vars

\* What holds: the credentials, whose records the model keeps apart, are
\* restored, and so is every token whose store key no other registered token
\* shares.
C28_RestartRestoresUnsharedRecords ==
  [][Restart =>
       /\ \A i \in DOMAIN keys : KeyStateRestored(i)
       /\ \A x \in DOMAIN tokens :
            (\A y \in DOMAIN tokens : y # x => hashToken(y) # hashToken(x))
              => TokenStateRestored(x)]_vars

\* C29 as stated: two different secrets are never persisted under the same
\* store key: the records of two different registered tokens have different
\* keys, and no token's record has the key of a credential's record.
C29_DistinctSecretsDistinctKeys ==
  /\ \A x \in DOMAIN tokens : \A y \in DOMAIN tokens :
       (x # y /\ tokenStore[hashToken(x)] # Null) => tokenStateKey(x) # tokenStateKey(y)
  /\ \A x \in DOMAIN tokens : \A i \in DOMAIN keys :
       keyStateKey(KeyText(keys[i].key)) # tokenStateKey(x)

\* What holds: the records of credentials and of tokens are in different
\* namespaces of the store, and two tokens share a store key exactly when
\* their 32-bit hashes have the same absolute value.
C29_NamespacesApart ==
  /\ \A x \in DOMAIN tokens : \A i \in DOMAIN keys :
       keyStateKey(KeyText(keys[i].key)) # tokenStateKey(x)
  /\ \A x \in DOMAIN tokens : \A y \in DOMAIN tokens :
       tokenStateKey(x) = tokenStateKey(y) <=> hashToken(x) = hashToken(y)
  /\ \A i \in DOMAIN keys : \A j \in DOMAIN keys :
       i # j => keyStateKey(KeyText(keys[i].key)) # keyStateKey(KeyText(keys[j].key))

\* Caller p's initialize() takes a step.
InitializeSteps(p) ==
  \/ pc[p] = "idle" /\ pc'[p] # "idle" /\ req'[p].op = "initialize"
  \/ pc[p] \in {"openKv", "kvGet"} /\ (pc'[p] # pc[p] \/ req'[p] # req[p])

\* C30 as stated: initialize() is idempotent, also when calls overlap: a call
\* that starts while another is awaiting the store does not create the
\* records again, and once the manager is initialized no call changes them.
C30_InitializeIdempotent ==
  /\ [][\A p \in Procs :
          ( /\ pc[p] = "idle" /\ pc'[p] # "idle" /\ req'[p].op = "initialize"
            /\ \E q \in Procs \ {p} : pc[q] \in {"openKv", "kvGet"} )
            => keys' = keys]_vars
  /\ [][\A p \in Procs : (initialized /\ InitializeSteps(p)) => keys' = keys]_vars

\* What holds: a call that starts when the manager is initialized returns at
\* once and changes nothing, and outside Deno no call is ever suspended, so
\* the records are created once.
C30_InitializedCallReturns ==
  /\ [][\A p \in Procs :
          (initialized /\ pc[p] = "idle" /\ pc'[p] # "idle" /\ req'[p].op = "initialize")
            => /\ pc'[p] = "done"
               /\ keys' = keys /\ kv' = kv /\ initialized']_vars
  /\ [](~isDeno => \A p \in Procs : pc[p] \notin {"openKv", "kvGet"})
  /\ [][(~isDeno /\ keys # <<>>) => \A i \in DOMAIN keys : keys'[i].key = keys[i].key]_vars
  /\ [][initialized => initialized']_vars

\* ---- properties of the configuration -------------------------------------------

\* The expiry text of the configured entry.
ConfiguredExpiry == env.USER_TOKENS[1].expiryText

\* The record of the configured token.
ConfiguredRecord == tokens[env.USER_TOKENS[1].token]

\* C31 as stated: after initialization a date or date-time expiry makes the
\* token expire at the instant it names; a never-word in any case, an empty or
\* an omitted field makes it never expire; any other value makes it never
\* expire and is logged, and initialization ends normally.
C31_ExpiryParsing ==
  \A p \in Procs :
    Returned(p, "initialize") =>
      /\ req[p].result.kind = "void"
      /\ ConfiguredExpiry.form \in {"date", "datetime"} =>
           /\ ConfiguredRecord.expiresAt = Some(InstantOf(ConfiguredExpiry))
           /\ req[p].result.logged = 0
      /\ ( \/ ConfiguredExpiry.form = "omitted"
           \/ ConfiguredExpiry.form = "word" /\ ConfiguredExpiry.word \in NeverWords \cup {""} ) =>
           /\ ConfiguredRecord.expiresAt = Null
           /\ req[p].result.logged = 0
      /\ (ConfiguredExpiry.form = "word" /\ ConfiguredExpiry.word = "not-a-date") =>
           /\ ConfiguredRecord.expiresAt = Null
           /\ req[p].result.logged = 1

\* What the code does with a date-time: the entry is split at every colon, so
\* only the text up to the hour is parsed; the token expires at the hour, or
\* never, with an error logged.  Everything else is as stated.
C31_DateTimeCutAtColon ==
  \A p \in Procs :
    Returned(p, "initialize") =>
      /\ req[p].result.kind = "void"
      /\ ConfiguredExpiry.form = "date" =>
           /\ ConfiguredRecord.expiresAt = Some(InstantOf(ConfiguredExpiry))
           /\ req[p].result.logged = 0
      /\ ConfiguredExpiry.form = "datetime" =>
           \/ /\ ConfiguredRecord.expiresAt = Some(ConfiguredExpiry.hour)
              /\ req[p].result.logged = 0
           \/ /\ ConfiguredRecord.expiresAt = Null
              /\ req[p].result.logged = 1
      /\ ( \/ ConfiguredExpiry.form = "omitted"
           \/ ConfiguredExpiry.form = "word" /\ ConfiguredExpiry.word \in NeverWords \cup {""} ) =>
           /\ ConfiguredRecord.expiresAt = Null
           /\ req[p].result.logged = 0
      /\ (ConfiguredExpiry.form = "word" /\ ConfiguredExpiry.word = "not-a-date") =>
           /\ ConfiguredRecord.expiresAt = Null
           /\ req[p].result.logged = 1

\* ---- properties of the statistics -----------------------------------------------

IsExpired(x) == tokens[x].expiresAt # Null /\ now > tokens[x].expiresAt[1]

RECURSIVE UsageSum(_)
UsageSum(S) ==
  IF S = {} THEN 0
  ELSE LET x == CHOOSE y \in S : TRUE
       IN  tokens[x].usageCount + UsageSum(S \ {x})

\* C32: in every registry state getStats counts as activeTokens the tokens that
\* are active and not expired, as expiredTokens the tokens past expiresAt
\* whatever their active flag, a disabled token that is not expired in neither,
\* so activeTokens + expiredTokens <= totalTokens, and totalUsage is the sum of
\* usageCount over all tokens.
C32_StatsCounts ==
  \A p \in Procs :
    Returned(p, "getStats") =>
      LET stats == req[p].result.value
      IN  /\ stats.totalTokens = Cardinality(DOMAIN tokens)
          /\ stats.activeTokens =
               Cardinality({x \in DOMAIN tokens : tokens[x].isActive /\ ~IsExpired(x)})
          /\ stats.expiredTokens = Cardinality({x \in DOMAIN tokens : IsExpired(x)})
          /\ stats.activeTokens + stats.expiredTokens
               = stats.totalTokens
                   - Cardinality({x \in DOMAIN tokens : ~tokens[x].isActive /\ ~IsExpired(x)})
          /\ stats.activeTokens + stats.expiredTokens <= stats.totalTokens
          /\ stats.totalUsage = UsageSum(DOMAIN tokens)

\* getStats has returned for a registry with a disabled token that is expired
\* and an active token that is not, which has been used.
C32_Witness ==
  \E p \in Procs :
    /\ Returned(p, "getStats")
    /\ \E x \in DOMAIN tokens : ~tokens[x].isActive /\ IsExpired(x)
    /\ \E x \in DOMAIN tokens : tokens[x].isActive /\ ~IsExpired(x) /\ tokens[x].usageCount > 0
    /\ req[p].result.value.activeTokens = 1
    /\ req[p].result.value.expiredTokens = 1

\* ---- properties of the sessions --------------------------------------------------

\* The session id of caller p's request is absent or not in the sessions map.
NoSuchSession(p) ==
  req[p].request.sessionId = 0 \/ req[p].request.sessionId \notin sessions

\* The session id of caller p's request is that of a session that was closed
\* before the request arrived.
ClosedSession(p) == req[p].stale

\* handleMcpPost of caller p, the body read, decides what to do with it.
PostDecides(p) == pc[p] = "handleMcpPost" /\ pc'[p] # "handleMcpPost"

\* Caller p's request is a GET that handleRequest passes to handleMcpGet in
\* this step, with the given session id.
GetArrives(p) ==
  /\ pc[p] = "idle" /\ pc'[p] # "idle"
  /\ req'[p].op = "http"
  /\ req'[p].request.method = "GET"
  /\ handleRequest(env, req'[p].request).handled

Rejected(p, st) ==
  /\ pc'[p] = "done"
  /\ req'[p].result = [kind |-> "response", value |-> Response(st)]
  /\ sessions' = sessions

\* A session id enters the map only through an initialize POST; a
\* non-initialize POST with an absent or unknown session id is rejected with
\* 400 and a GET with 404, creating no session; when DELETE returns 204 the
\* id is not in the map.
SessionsOpenAndClose ==
  /\ [][\A id \in sessions' \ sessions :
          \E p \in Procs : /\ pc[p] = "connecting" /\ pc'[p] = "done"
                           /\ req[p].request.method = "POST"
                           /\ req[p].request.body = "initialize"]_vars
  /\ [][\A p \in Procs :
          (PostDecides(p) /\ req[p].request.body # "initialize" /\ NoSuchSession(p))
            => Rejected(p, 400)]_vars
  /\ [][\A p \in Procs :
          (GetArrives(p) /\ (req'[p].request.sessionId = 0
                               \/ req'[p].request.sessionId \notin sessions))
            => Rejected(p, 404)]_vars
  /\ [][\A p \in Procs :
          (pc[p] = "closing" /\ pc'[p] = "done")
            => /\ req'[p].result = [kind |-> "response", value |-> Response(204)]
               /\ req[p].request.sessionId \notin sessions']_vars

\* C33 as stated: the above, and every later POST or GET that carries the id
\* of a closed session is rejected as session not found.
C33_ClosedSessionRejectsEveryRequest ==
  /\ SessionsOpenAndClose
  /\ [][\A p \in Procs : (PostDecides(p) /\ ClosedSession(p)) => Rejected(p, 400)]_vars
  /\ [][\A p \in Procs :
          (GetArrives(p) /\ req'[p].request.sessionId \in issued \ sessions)
            => Rejected(p, 404)]_vars

\* C33: the above, and every later GET or non-initialize POST that carries the
\* id of a closed session is rejected as session not found; an initialize POST
\* that carries it starts a new session, and the closed id never comes back
\* into the map.
C33_ClosedSessionStaysClosed ==
  /\ SessionsOpenAndClose
  /\ [][\A p \in Procs :
          (PostDecides(p) /\ ClosedSession(p) /\ req[p].request.body # "initialize")
            => Rejected(p, 400)]_vars
  /\ [][\A p \in Procs :
          (PostDecides(p) /\ ClosedSession(p) /\ req[p].request.body = "initialize")
            => pc'[p] = "connecting" /\ sessions' = sessions]_vars
  /\ [][\A p \in Procs :
          (GetArrives(p) /\ req'[p].request.sessionId \in issued \ sessions)
            => Rejected(p, 404)]_vars
  /\ [][\A id \in issued \ sessions : id \notin sessions']_vars

\* A session was created and closed, another one was created by an initialize
\* POST that carried the closed id, and a non-initialize POST that carries the
\* closed id has been rejected with 400.
C33_Witness ==
  \E p \in Procs :
    /\ Returned(p, "http")
    /\ req[p].request.method = "POST"
    /\ req[p].request.body = "tools/list"
    /\ ClosedSession(p)
    /\ sessions # {}
    /\ req[p].result = [kind |-> "response", value |-> Response(400)]

\* ---- properties of concurrent requests -------------------------------------------

\* Credential i is marked as failed in this step.
Marked(i) ==
  \/ keys'[i].retryCount > keys[i].retryCount
  \/ keys'[i].failedAt # keys[i].failedAt /\ keys'[i].failedAt # Null
  \/ keys'[i].isDead /\ ~keys[i].isDead

\* Caller p's first outbound call fails with a quota-class error in this step
\* and its request calls markCurrentKeyFailed.
ReportsFailure(p) ==
  /\ pc[p] = "call1" /\ pc'[p] = "saving"
  /\ req[p].op = "makeExaRequest"

\* C34 as stated: under any interleaving of makeExaRequest calls, a credential
\* is marked as failed only in the step of a request whose failing outbound
\* call was issued with that credential.
C34_OnlyTheUsedKeyIsMarked ==
  [][\A i \in DOMAIN keys :
       Marked(i) => \E p \in Procs : ReportsFailure(p) /\ req[p].apiKey = keys[i].key]_vars

\* What the code does: the credential marked is the one at the cursor when the
\* failure is reported, whichever credential the failing call was issued with.
C34_TheKeyAtTheCursorIsMarked ==
  [][\A i \in DOMAIN keys :
       Marked(i) => /\ i = currentIndex
                    /\ \E p \in Procs : ReportsFailure(p)
                    /\ keys'[i] = markFailed(keys[i], now)]_vars

\* C35 as stated: with cooldownMs > 0, under any interleaving of concurrent
\* requests, the credential of a request's retry call differs from the
\* credential whose quota-class failure in that request triggered the retry.
C35_RetryUsesAnotherKey ==
  \A p \in Procs :
    (cooldownMs > 0 /\ req[p].op = "makeExaRequest" /\ req[p].calls = 2)
    => req[p].newKey # req[p].apiKey

\* The same for the requests that take less than the cooldown from reading
\* their first credential: the failure of such a request may be recorded on
\* another credential than the one it used, which then stays available.
C35_RetryWithinCooldownUsesAnotherKey ==
  \A p \in Procs :
    ( /\ cooldownMs > 0 /\ req[p].op = "makeExaRequest" /\ req[p].calls = 2
      /\ now - req[p].startedAt < cooldownMs )
    => req[p].newKey # req[p].apiKey

\* ---- properties of markCurrentKeyFailed ------------------------------------------

\* Caller p's markCurrentKeyFailed call marks a credential in this step.
MarkStep(p) ==
  pc[p] = "idle" /\ pc'[p] = "saving" /\ req'[p].op = "markCurrentKeyFailed"

\* Caller p's markCurrentKeyFailed call returns b in this step.
MarkReturns(p, b) ==
  /\ pc[p] = "saving" /\ pc'[p] = "done" /\ req[p].op = "markCurrentKeyFailed"
  /\ req'[p].result = [kind |-> "bool", value |-> b]

\* The credential at the cursor, and no other, is marked: failedAt = now,
\* retryCount + 1, dead as soon as the new retryCount reaches maxRetries.
MarksTheCursorKey ==
  \A p \in Procs :
    MarkStep(p) =>
      /\ currentIndex' = currentIndex
      /\ keys' = [keys EXCEPT ![currentIndex] =
                    [key |-> @.key, failedAt |-> Some(now), retryCount |-> @.retryCount + 1,
                     isDead |-> @.isDead \/ @.retryCount + 1 >= maxRetries]]

\* The call returns true iff some credential is available, and then the cursor
\* is at an available credential; the return modifies no credential.
ReturnsWhetherAvailable ==
  \A p \in Procs : \A b \in BOOLEAN :
    MarkReturns(p, b) =>
      /\ b = (\E i \in DOMAIN keys : isKeyAvailable(keys[i], now))
      /\ b => isKeyAvailable(keys'[currentIndex'], now)
      /\ keys' = keys

\* C36 as stated: markCurrentKeyFailed marks exactly the credential at the
\* cursor, returns true iff the scan found an available credential, at which
\* the cursor then points, and when it returns false the cursor is back at the
\* index it had before the call.
C36_FalseLeavesCursorAsBeforeTheCall ==
  [][/\ MarksTheCursorKey
     /\ ReturnsWhetherAvailable
     /\ \A p \in Procs : MarkReturns(p, FALSE) => currentIndex' = req[p].markIdx]_vars

\* C36 amended: as above, but when the call returns false the cursor is back
\* at the index it had when the scan started.
C36_FalseLeavesCursorAsBeforeTheScan ==
  [][/\ MarksTheCursorKey
     /\ ReturnsWhetherAvailable
     /\ \A p \in Procs : MarkReturns(p, FALSE) => currentIndex' = currentIndex]_vars

\* A call on [K1, K2] returned false: it marked K2, K1 was in cooldown, and
\* the cursor is at K2 again.
C36_Witness ==
  \E p \in Procs :
    /\ Returned(p, "markCurrentKeyFailed")
    /\ req[p].result = [kind |-> "bool", value |-> FALSE]
    /\ KeysLength = 2 /\ req[p].markIdx = 1 /\ currentIndex = 1
    /\ keys[1].retryCount = 1 /\ ~isKeyAvailable(keys[0], now)

\* ---- properties of the dead flag ------------------------------------------------

\* C37: in every state reachable from a fresh pool a credential is dead exactly
\* when its retryCount >= maxRetries, and only resetAllKeys turns a dead
\* credential back to not dead.
C37_DeadIffRetriesUsedUp ==
  /\ [](\A i \in DOMAIN keys : keys[i].isDead <=> keys[i].retryCount >= maxRetries)
  /\ [][\A i \in DOMAIN keys :
          (keys[i].isDead /\ ~keys'[i].isDead) => ResetsKey(i)]_vars

\* With maxRetries = 2 a credential has died of its second failure, its
\* cooldown has elapsed since, and a rotateToNextKey call has returned.
C37_Witness ==
  \E p \in Procs : \E i \in DOMAIN keys :
    /\ Returned(p, "rotateToNextKey")
    /\ maxRetries = 2 /\ keys[i].isDead /\ keys[i].retryCount = 2
    /\ cooldownMs > 0 /\ now - keys[i].failedAt[1] >= cooldownMs

\* ---- properties of getActiveKey against getStatus --------------------------------

\* C38: getActiveKey returns null exactly when getStatus, evaluated at the same
\* instant, reports active = 0; whenever some credential is neither dead nor
\* in cooldown it returns such a credential, wherever the cursor stands.
C38_NullIffNoneActive ==
  [][\A p \in Procs : CallGetActiveKey(p) =>
       LET ret == req'[p].result.key
       IN  /\ ret = NoKey <=> getStatus(keys, now).active = 0
           /\ ret = NoKey <=> ~\E i \in DOMAIN keys : ~keys[i].isDead /\ ~InCooldown(i)
           /\ ret # NoKey => \E i \in DOMAIN keys : keys[i].key = ret /\ ~keys[i].isDead /\ ~InCooldown(i)]_vars

\* getActiveKey has returned K2 with the cursor on K1, which is dead.
C38_Witness ==
  \E p \in Procs :
    /\ Returned(p, "getActiveKey")
    /\ KeysLength = 2 /\ req[p].startIndex = 0 /\ keys[0].isDead
    /\ req[p].result.key = keys[1].key

\* ---- properties of the scans -----------------------------------------------------

PoolOps == {"getActiveKey", "markCurrentKeyFailed", "rotateToNextKey", "getStatus", "resetAllKeys"}

\* The step leaves the pool and its store as they are.
PoolUntouched ==
  keys' = keys /\ currentIndex' = currentIndex /\ kvStore' = kvStore

\* On a pool of N >= 1 credentials getActiveKey and rotateToNextKey return in
\* the step of the call, with a credential of the pool or null, and with a
\* boolean and the cursor on an index of the pool; on the empty pool
\* getActiveKey returns null and markCurrentKeyFailed returns false, and
\* neither modifies anything.
ScansReturn ==
  \A p \in Procs :
    /\ (CallGetActiveKey(p) /\ KeysLength >= 1) =>
         /\ pc'[p] = "done"
         /\ req'[p].result.key \in {NoKey} \cup {keys[i].key : i \in DOMAIN keys}
    /\ (CallRotateToNextKey(p) /\ KeysLength >= 1) =>
         /\ pc'[p] = "done"
         /\ req'[p].result.kind = "bool"
         /\ currentIndex' \in DOMAIN keys
    /\ (CallGetActiveKey(p) /\ KeysLength = 0) =>
         /\ pc'[p] = "done" /\ req'[p].result.key = NoKey
         /\ PoolUntouched
    /\ (CallMarkCurrentKeyFailed(p) /\ KeysLength = 0) =>
         /\ pc'[p] = "done" /\ req'[p].result = [kind |-> "bool", value |-> FALSE]
         /\ PoolUntouched

\* C39 as stated: the scans return on every pool, on the empty pool
\* getActiveKey returns null and markCurrentKeyFailed false without modifying
\* anything, and no pool operation raises.
C39_ScansReturnNothingRaises ==
  /\ [][ScansReturn]_vars
  /\ [](\A p \in Procs :
          (pc[p] = "done" /\ req[p].op \in PoolOps)
            => req[p].result.kind \notin {"typeError", "storeError"})

\* What the code does: the scans return as stated; an operation raises when
\* rotateToNextKey is called on the empty pool and when a store write it
\* awaits fails, and in no other case.
C39_RaisesOnEmptyRotationAndStoreFailure ==
  /\ [][ScansReturn]_vars
  /\ [](\A p \in Procs :
          (pc[p] = "done" /\ req[p].op \in PoolOps) =>
            /\ req[p].result.kind = "typeError"
                 <=> (req[p].op = "rotateToNextKey" /\ KeysLength = 0)
            /\ req[p].result.kind = "storeError" <=> ~req[p].saveOk)

\* ---- properties of the active flag -----------------------------------------------

\* Caller p calls disableToken or enableToken in this step.
ToggleStep(p) ==
  pc[p] = "idle" /\ req'[p].op \in {"disableToken", "enableToken"}

\* C40: the active flag is changed by disableToken and enableToken only; on a
\* registered token they set it to false and to true and leave usageCount,
\* lastUsedAt, role and expiresAt, and every other record, as they are; on an
\* unregistered value they return false and change no record; a validation of
\* a registered token returns Disabled while the flag is false, whether it has
\* expired or not, and otherwise depends on the expiry only.
C40_ActiveFlagTogglesOnly ==
  /\ [][\A p \in Procs : ToggleStep(p) =>
          LET t == req'[p].arg
          IN  IF t \in DOMAIN tokens
              THEN /\ tokens' = [tokens EXCEPT ![t].isActive = (req'[p].op = "enableToken")]
                   /\ pc'[p] = "toggling"
              ELSE /\ pc'[p] = "done"
                   /\ req'[p].result = [kind |-> "bool", value |-> FALSE]
                   /\ tokens' = tokens /\ tokenStore' = tokenStore]_vars
  /\ [][(\E t \in DOMAIN tokens : tokens'[t].isActive # tokens[t].isActive)
          => \E p \in Procs : ToggleStep(p)]_vars
  /\ [](\A p \in Procs :
          (Returned(p, "validate") /\ req[p].arg \in DOMAIN tokens) =>
            LET tokenInfo == tokens[req[p].arg]
                reason == req[p].result.value.reason
            IN  IF ~tokenInfo.isActive THEN reason = "Token is disabled"
                ELSE IF tokenInfo.expiresAt # Null /\ now > tokenInfo.expiresAt[1]
                     THEN reason = "Token has expired"
                     ELSE req[p].result.value.valid)

\* A token that has been used and is past its expiry is validated while
\* disabled and reported as disabled, its usage count as it was.
C40_Witness ==
  \E p \in Procs :
    /\ Returned(p, "validate") /\ req[p].arg \in DOMAIN tokens
    /\ req[p].result.value.reason = "Token is disabled"
    /\ tokens[req[p].arg].usageCount > 0
    /\ tokens[req[p].arg].expiresAt # Null /\ now > tokens[req[p].arg].expiresAt[1]

====
